---------------------------- MODULE Spec2Model ----------------------------
(***************************************************************************)
(* Verification model of the STS transit simulation:                       *)
(*   - the publish/subscribe broker (projects/project_2/core/              *)
(*     message_broker.py): construction, subscribe and unsubscribe,        *)
(*     publish, the consumer loop, shutdown;                               *)
(*   - the entity model (models/stop.py, models/bus.py,                    *)
(*     models/passenger.py) and the agent threads that drive it            *)
(*     (core/bus_thread.py, core/passenger_thread.py), together with the   *)
(*     bus and stop adapters' passenger handlers, which run on the         *)
(*     broker's consumer thread;                                           *)
(*   - the stop thread (core/stop_thread.py) and the steps of              *)
(*     Stop.bus_arrival and Stop.bus_departure it shares with the bus      *)
(*     threads; stop_simulation (projects/project_0/simulations/           *)
(*     simulation_manager.py) and the loops it ends.                       *)
(*                                                                         *)
(* Threads are modelled at the granularity of their reads and writes of    *)
(* shared objects: CPython may switch threads between any two bytecodes,   *)
(* so a check (len(list) + 1 <= capacity) and the append that follows it   *)
(* are two steps.                                                          *)
(***************************************************************************)
EXTENDS Integers, Sequences, FiniteSets, TLC

(***************************************************************************)
(* Bounds of the broker model.                                             *)
(***************************************************************************)
MaxPublish == 2      \* Message objects constructed in one run
NSubs == 2           \* Subscriber objects
NPubThreads == 2     \* threads that call publish()
MaxClock == 2        \* distinct values time.time() returns in one run
MaxSubCalls == 3     \* subscribe()/unsubscribe() calls in one run
MaxYields == 3       \* turns of one for loop over a set that was changed meanwhile
NCtorThreads == 3    \* threads that construct MessageBroker()

Subs == 1..NSubs
PubThreads == 1..NPubThreads
MsgNums == 1..MaxPublish
CtorThreads == 1..NCtorThreads

\* MessageType members used by the model (message_broker.py:27-28).
Kinds == {"bus_arrival", "bus_departure"}
\* sender_id strings.
Senders == {"Bus-1", "Stop-1"}

VARIABLES
    \* ---- MessageBroker ----
    subscribers,        \* _subscribers: kind -> set of subscribers
    message_queue,      \* _message_queue (queue.Queue): sequence of messages
    broker_stop_event,  \* _stop_event
    workerPc,           \* position of the _process_messages thread
    workerMsg,          \* its local `message` (NoMsg when none)
    workerTodo,         \* subscribers the for loop has not visited yet
    workerCur,          \* subscriber whose on_message is running (0: none)
    workerIter,         \* the set iterator of the for loop: [len, dirty, yields]
    fanoutKept,         \* (history) subscribers of the set when the for loop began that
                        \* have not been removed from it since
    subCall,            \* per subscriber: the subscribe/unsubscribe call in progress
    nSubCalls,          \* subscribe/unsubscribe calls made so far
    pubPc,              \* per publisher thread: "idle" | "enqueued"
    pubMsg,             \* per publisher thread: message of the call in progress
    shutdownPc,         \* "none" | "join" | "drain" | "returned"
    clock,              \* current value of time.time()
    nextMsg,            \* number of Message objects constructed so far + 1
    \* ---- observation of the broker (history) ----
    delivered,          \* per subscriber: messages on_message was invoked with, in order
    published,          \* messages in the order they were put in the queue
    completed,          \* messages in the order their publish() calls returned
    hb,                 \* hb[n]: messages whose publish() had returned when n was enqueued
    queuedAtShutdown,   \* message numbers in the queue when shutdown() began
    raisedIn,           \* subscribers whose on_message raised during the current fan-out
    subLog,             \* per kind: subscribers in the order of their add()s, removed on remove()
    unsubDone           \* per subscriber and kind: [on, seen] set when unsubscribe returned

brokerVars == <<subscribers, subCall, nSubCalls, subLog, unsubDone, workerIter, fanoutKept,
                message_queue, broker_stop_event, workerPc, workerMsg,
                workerTodo, workerCur, pubPc, pubMsg, shutdownPc, clock, nextMsg,
                delivered, published, completed, hb, queuedAtShutdown, raisedIn>>

VARIABLES
    \* ---- entity model ----
    buses,              \* bus -> [capacity, passenger_list, current_stop]
    stops,              \* stop -> [passenger_list, waiting_passengers, is_occupied,
                        \*          bus_queue, current_buses]
    passengers,         \* passenger -> [status, current_bus, current_stop, destination]
    seed_passengers,    \* STSSeed.passengers: the passengers created
    seed_buses,         \* STSSeed.buses: the buses created
    isinstanceOk,       \* whether passenger.py's Stop/Station are the classes the
                        \* entities were built from
    \* ---- BusThread, per bus ----
    busPc,              \* "exchange" | "board" | "iter" | "append" | "stop_remove" | "move"
    busTodo,            \* rest of the copy of waiting_passengers being iterated
    busCur,             \* passenger in the add_passenger call in progress
    \* ---- PassengerThread, per passenger ----
    passPc,             \* "loop" | "boarding" | "alighting" | "alighted" | "done"
    passArg,            \* argument of the board_bus / alight_bus call in progress
    \* ---- adapters, run by the broker's consumer thread ----
    simQueue,           \* passenger messages queued in the broker
    adPc,               \* "idle" | "fanout" | "append"
    adMsg,              \* message being fanned out
    adTodo,             \* adapters the fan-out has not visited yet
    adBus,              \* bus of the add_passenger call in progress
    nRequests,          \* messages the generator has published
    \* ---- direct calls on a stop (history) ----
    stopLog,            \* calls of bus_arrival / bus_departure made so far
    \* ---- the stop methods step by step (BusThread moving, StopThread) ----
    mvPc,               \* per bus: position inside _move_to_next_stop
    mvNext,             \* per bus: local next_bus of bus_departure
    stPc,               \* per stop: position of the StopThread
    stNext,             \* per stop: local next_bus of _manage_bus_queue
    enqueued,           \* per stop (history): buses appended to bus_queue and not yet
                        \* admitted from it, oldest first
    mvLog,              \* per bus (history): what the advance in progress, or the last
                        \* one, has done so far
    \* ---- MessageBroker(): __new__ and __init__, per constructing thread ----
    ctorPc,             \* position inside the construction
    nInstances,         \* objects __new__ has created (cls._instance is None iff 0)
    initialized,        \* _instance._initialized
    nTables,            \* subscriber tables created so far
    nQueues,            \* message queues created so far
    nWorkers,           \* _process_messages threads started so far
    \* ---- SimulationManager and the threads' loops ----
    sim_stop_event,     \* SimulationManager.stop_event, shared by every thread
    loopPc,             \* per stop/station/intersection thread: "head" | "ended"
    simPc,              \* stop_simulation: "running" | "joining" | "returned"
    joined,             \* threads of self.threads joined so far
    \* ---- MessageSimulationManager and its message generators ----
    msg_stop_event,     \* MessageSimulationManager.stop_event
    genPc,              \* per generator thread: "head" | "ended"
    msgPc,              \* MessageSimulationManager.stop_simulation:
                        \* "running" | "base" | "returned"
    \* ---- the graph of origins (Origin, Stop) ----
    connected_origins,  \* per node: Origin.connected_origins, a list
    neighboring_stops,  \* per node: Stop.neighboring_stops, a set
    graphLast,          \* the last connection call made and what it returned
    \* ---- history ----
    seeded              \* the stops and the buses as they were when the threads started

seedVars == <<seed_passengers, seed_buses, isinstanceOk>>
busThread == <<busPc, busTodo, busCur>>
passThread == <<passPc, passArg>>
consumer == <<simQueue, adPc, adMsg, adTodo, adBus, nRequests>>
raceVars == <<mvPc, mvNext, stPc, stNext, enqueued, mvLog>>
ctorVars == <<ctorPc, nInstances, initialized, nTables, nQueues, nWorkers>>
haltVars == <<sim_stop_event, loopPc, simPc, joined>>
graphVars == <<connected_origins, neighboring_stops, graphLast>>
\* Variables of the parts of the program that the agents, the broker and the
\* stop methods do not touch.
msgVars == <<msg_stop_event, genPc, msgPc>>
auxVars == <<graphVars, seeded, msgVars>>
coreVars == <<buses, stops, passengers, seedVars, busThread, passThread, consumer, stopLog,
              raceVars, ctorVars, haltVars>>
simVars == <<coreVars, auxVars>>
restVars == <<brokerVars, raceVars, ctorVars, haltVars, auxVars>>

vars == <<brokerVars, simVars>>

\* Unchanged-lists of the broker actions, by what a step leaves alone.
pubState == <<pubPc, pubMsg, clock, nextMsg, published, completed, hb>>
workerState == <<workerPc, workerMsg, workerTodo, workerCur, workerIter, fanoutKept,
                delivered, raisedIn>>
subState == <<subscribers, subCall, nSubCalls, subLog, unsubDone>>
shutdownState == <<shutdownPc, queuedAtShutdown>>

NoMsg == [n |-> 0, type |-> "none", sender_id |-> "none", timestamp |-> 0]

(***************************************************************************)
(* Message.__init__ : timestamp defaults to time.time() when the argument  *)
(* is None (or 0: `timestamp or time.time()`); id = f"{sender_id}-{ts}".   *)
(* ts = 0 stands for "no timestamp argument", now for what time.time()     *)
(* returns at the call.                                                    *)
(***************************************************************************)
Message(n, msg_type, sender_id, ts, now) ==
    [n |-> n, type |-> msg_type, sender_id |-> sender_id,
     timestamp |-> IF ts = 0 THEN now ELSE ts]

\* Message.id: the string f"{sender_id}-{timestamp}", a function of the pair.
MessageId(m) == <<m.sender_id, m.timestamp>>

\* Position (1-based) of the first element of seq s satisfying n = s[i].n; 0 if none.
IndexOfMsg(s, n) ==
    IF \E i \in 1..Len(s) : s[i].n = n
    THEN CHOOSE i \in 1..Len(s) : s[i].n = n /\ \A j \in 1..(i-1) : s[j].n # n
    ELSE 0

IndexOf(s, x) ==
    IF \E i \in 1..Len(s) : s[i] = x
    THEN CHOOSE i \in 1..Len(s) : s[i] = x /\ \A j \in 1..(i-1) : s[j] # x
    ELSE 0

SeqRange(s) == {s[i] : i \in 1..Len(s)}

(***************************************************************************)
(* MessageBroker.__init__: empty subscriber sets, empty queue, the worker  *)
(* thread started.  The subscriptions of the run are made by the adapters' *)
(* constructors before the simulation starts; the broker model starts from *)
(* one of a few such subscription tables.                                  *)
(***************************************************************************)
SubscriptionTables ==
    { [k \in Kinds |-> Subs],
      [k \in Kinds |-> IF k = "bus_arrival" THEN Subs ELSE {1}],
      [k \in Kinds |-> IF k = "bus_arrival" THEN {1} ELSE {}] }

\* No for loop in progress; no call in progress; no unsubscribe on record.
NoIter == [len |-> 0, dirty |-> FALSE, yields |-> 0]
NoCall == [op |-> "none", todo |-> {}, kinds |-> {}]
NotUnsubscribed == [on |-> FALSE, seen |-> {}]

\* The one construction of the run has been made.
Constructed ==
    /\ ctorPc = [t \in CtorThreads |-> "done"]
    /\ nInstances = 1
    /\ initialized = TRUE
    /\ nTables = 1
    /\ nQueues = 1
    /\ nWorkers = 1

\* The attributes of a broker nobody has used yet.
BrokerIdle ==
    /\ message_queue = <<>>
    /\ broker_stop_event = FALSE
    /\ workerPc = "check"
    /\ workerMsg = NoMsg
    /\ workerTodo = {}
    /\ workerCur = 0
    /\ workerIter = NoIter
    /\ fanoutKept = {}
    /\ subCall = [s \in Subs |-> NoCall]
    /\ nSubCalls = 0
    /\ subLog = [k \in Kinds |-> <<>>]
    /\ unsubDone = [s \in Subs |-> [k \in Kinds |-> NotUnsubscribed]]
    /\ pubPc = [t \in PubThreads |-> "idle"]
    /\ pubMsg = [t \in PubThreads |-> NoMsg]
    /\ shutdownPc = "none"
    /\ clock = 1
    /\ nextMsg = 1
    /\ delivered = [s \in Subs |-> <<>>]
    /\ published = <<>>
    /\ completed = <<>>
    /\ hb = [n \in MsgNums |-> {}]
    /\ queuedAtShutdown = {}
    /\ raisedIn = {}

BrokerFresh ==
    /\ Constructed
    /\ BrokerIdle

(***************************************************************************)
(* MessageBroker.publish, first part: the caller constructs a Message (at  *)
(* time `now`, never earlier than the last reading of the clock) and       *)
(* publish() puts it in the queue (message_broker.py:165).                 *)
(***************************************************************************)
PublishPut(t, msg_type, sender_id, ts, now) ==
    /\ pubPc[t] = "idle"
    /\ nextMsg <= MaxPublish
    /\ now >= clock
    /\ clock' = now
    /\ LET m == Message(nextMsg, msg_type, sender_id, ts, now) IN
        /\ message_queue' = Append(message_queue, m)
        /\ published' = Append(published, m)
        /\ pubMsg' = [pubMsg EXCEPT ![t] = m]
        /\ hb' = [hb EXCEPT ![nextMsg] = SeqRange(completed)]
    /\ pubPc' = [pubPc EXCEPT ![t] = "enqueued"]
    /\ nextMsg' = nextMsg + 1
    /\ UNCHANGED <<subState, broker_stop_event, completed, workerState, shutdownState>>
    /\ UNCHANGED simVars

(***************************************************************************)
(* MessageBroker.publish, second part: the logging after the put, then the *)
(* call returns (message_broker.py:166-170).                               *)
(***************************************************************************)
PublishReturn(t) ==
    /\ pubPc[t] = "enqueued"
    /\ completed' = Append(completed, pubMsg[t])
    /\ pubPc' = [pubPc EXCEPT ![t] = "idle"]
    /\ pubMsg' = [pubMsg EXCEPT ![t] = NoMsg]
    /\ UNCHANGED <<subState, message_queue, broker_stop_event, clock, nextMsg,
                   published, hb, workerState, shutdownState>>
    /\ UNCHANGED simVars

(***************************************************************************)
(* _process_messages: `while not self._stop_event.is_set()`                *)
(***************************************************************************)
WorkerCheck ==
    /\ workerPc = "check"
    /\ workerPc' = IF broker_stop_event THEN "done" ELSE "get"
    /\ UNCHANGED <<subState, message_queue, broker_stop_event, workerMsg,
                   workerTodo, workerCur, workerIter, fanoutKept, delivered, raisedIn, pubState,
                   shutdownState>>
    /\ UNCHANGED simVars

\* Mutant of QueueGet: the queue hands out its newest element first.
QueueGet_Lifo(q) == [item |-> q[Len(q)], rest |-> SubSeq(q, 1, Len(q) - 1)]

\* queue.Queue.get on a non-empty queue: the oldest element, and what is left.
QueueGet(q) == [item |-> Head(q), rest |-> Tail(q)]

\* Mutant of FanoutTargets: the subscribers of every kind but the message's.
FanoutTargets_WrongKind(m) == UNION {subscribers[k] : k \in Kinds \ {m.type}}

\* `subscribers = self._subscribers.get(message.type, set())`
FanoutTargets(m) == subscribers[m.type]

(***************************************************************************)
(* _process_messages: `message = self._message_queue.get(timeout=0.1)`,    *)
(* then `subscribers = self._subscribers.get(message.type, set())`.        *)
(* queue.Empty after the timeout: `continue`.                              *)
(***************************************************************************)
WorkerGet ==
    /\ workerPc = "get"
    /\ IF message_queue = <<>>
       THEN /\ workerPc' = "check"
            /\ UNCHANGED <<message_queue, workerMsg, workerTodo, workerIter, fanoutKept>>
       ELSE /\ workerMsg' = QueueGet(message_queue).item
            /\ message_queue' = QueueGet(message_queue).rest
            /\ workerTodo' = FanoutTargets(QueueGet(message_queue).item)
            /\ fanoutKept' = FanoutTargets(QueueGet(message_queue).item)
            /\ workerIter' = [len |-> Cardinality(FanoutTargets(QueueGet(message_queue).item)),
                              dirty |-> FALSE, yields |-> 0]
            /\ workerPc' = "fanout"
    /\ UNCHANGED <<subState, broker_stop_event, workerCur, delivered, raisedIn,
                   pubState, shutdownState>>
    /\ UNCHANGED simVars

(***************************************************************************)
(* _process_messages: one turn of `for subscriber in subscribers:` calls   *)
(* subscriber.on_message(message); a set is iterated in an order unrelated *)
(* to the order of subscription.  When the loop is exhausted: task_done(). *)
(* The loop iterates the broker's own set, not a copy.  The iterator        *)
(* raises RuntimeError when the size of the set differs from the size it   *)
(* had when the loop began; the outer `except Exception` logs it and the   *)
(* thread goes back to its `while` test.  After the set was changed and    *)
(* brought back to its size, what the iterator yields next is not defined: *)
(* any member of the set, visited before or not, or the end of the loop.   *)
(***************************************************************************)
LoopEnds ==
    /\ workerPc' = "check"
    /\ workerMsg' = NoMsg
    /\ workerTodo' = {}
    /\ workerIter' = NoIter
    /\ fanoutKept' = {}
    /\ raisedIn' = {}
    /\ UNCHANGED <<workerCur, delivered>>

LoopYields(s) ==
    /\ workerTodo' = workerTodo \ {s}
    /\ workerIter' = [workerIter EXCEPT !.yields = @ + 1]
    /\ fanoutKept' = fanoutKept
    /\ workerCur' = s
    /\ delivered' = [delivered EXCEPT ![s] = Append(@, workerMsg)]
    /\ workerPc' = "handler"
    /\ UNCHANGED <<workerMsg, raisedIn>>

WorkerDeliver ==
    /\ workerPc = "fanout"
    /\ IF Cardinality(FanoutTargets(workerMsg)) # workerIter.len
       THEN LoopEnds
       ELSE IF ~workerIter.dirty
       THEN IF workerTodo = {} THEN LoopEnds
                               ELSE \E s \in workerTodo : LoopYields(s)
       ELSE \/ LoopEnds
            \/ /\ workerIter.yields < MaxYields
               /\ \E s \in FanoutTargets(workerMsg) : LoopYields(s)
    /\ UNCHANGED <<subState, message_queue, broker_stop_event, pubState, shutdownState>>
    /\ UNCHANGED simVars

\* on_message returns normally (message_broker.py:192-193).
HandlerReturn ==
    /\ workerPc = "handler"
    /\ workerPc' = "fanout"
    /\ workerCur' = 0
    /\ UNCHANGED <<subState, message_queue, broker_stop_event, workerMsg,
                   workerTodo, workerIter, fanoutKept, delivered, raisedIn, pubState,
                   shutdownState>>
    /\ UNCHANGED simVars

\* Mutant of AfterRaise: the exception leaves the for loop and ends the thread.
AfterRaise_Propagates == "done"

(***************************************************************************)
(* Where the consumer continues after on_message raised: the inner         *)
(* `except Exception` (message_broker.py:194-195) logs and the for loop    *)
(* goes on with the next subscriber.                                       *)
(***************************************************************************)
AfterRaise == "fanout"

\* on_message raises an Exception.
HandlerRaise ==
    /\ workerPc = "handler"
    /\ workerPc' = AfterRaise
    /\ raisedIn' = raisedIn \cup {workerCur}
    /\ workerCur' = 0
    /\ UNCHANGED <<subState, message_queue, broker_stop_event, workerMsg,
                   workerTodo, workerIter, fanoutKept, delivered, pubState, shutdownState>>
    /\ UNCHANGED simVars

(***************************************************************************)
(* MessageBroker.shutdown: `self._stop_event.set()`                        *)
(***************************************************************************)
ShutdownBegin ==
    /\ shutdownPc = "none"
    /\ broker_stop_event' = TRUE
    /\ queuedAtShutdown' = {message_queue[i].n : i \in 1..Len(message_queue)}
    /\ shutdownPc' = "join"
    /\ UNCHANGED <<subState, message_queue, pubState, workerState>>
    /\ UNCHANGED simVars

(***************************************************************************)
(* `if self._worker_thread.is_alive(): self._worker_thread.join(2.0)`.     *)
(* The join returns when the worker has ended, or after 2 s while it is    *)
(* still running.  Outside on_message the worker reaches its next          *)
(* `while` test within the 0.1 s poll, so the join can only expire while   *)
(* the worker is inside a subscriber's on_message, whose duration is       *)
(* unbounded.                                                              *)
(***************************************************************************)
ShutdownJoin ==
    /\ shutdownPc = "join"
    /\ \/ workerPc = "done"
       \/ workerPc = "handler"
    /\ shutdownPc' = "drain"
    /\ UNCHANGED <<subState, message_queue, broker_stop_event, queuedAtShutdown,
                   pubState, workerState>>
    /\ UNCHANGED simVars

(***************************************************************************)
(* `while not self._message_queue.empty(): get_nowait(); task_done()`,     *)
(* then shutdown() returns.                                                *)
(***************************************************************************)
ShutdownDrain ==
    /\ shutdownPc = "drain"
    /\ message_queue' = <<>>
    /\ shutdownPc' = "returned"
    /\ UNCHANGED <<subState, broker_stop_event, queuedAtShutdown, pubState,
                   workerState>>
    /\ UNCHANGED simVars

(***************************************************************************)
(* MessageBroker.subscribe and MessageBroker.unsubscribe.  Both loop over  *)
(* the kinds of the call and change one set per turn; they take no lock,   *)
(* so the turns interleave with the worker thread and with other callers.  *)
(* The model gives each subscriber one caller at a time.                   *)
(***************************************************************************)
\* Mutant of SetAdd: adding a member that is already there removes it.
SetAdd_Toggle(S, x) == IF x \in S THEN S \ {x} ELSE S \cup {x}

\* `self._subscribers[msg_type].add(subscriber)`
SetAdd(S, x) == S \cup {x}

\* Mutant of SetRemove: the member stays.
SetRemove_Noop(S, x) == S

\* `self._subscribers[msg_type].remove(subscriber)`
SetRemove(S, x) == S \ {x}

RECURSIVE SumOver(_, _)
SumOver(f, D) ==
    IF D = {} THEN 0
    ELSE LET d == CHOOSE d \in D : TRUE IN f[d] + SumOver(f, D \ {d})

get_stats ==
    [queue_size |-> Len(message_queue),
     subscribers_count |-> [k \in Kinds |-> Cardinality(subscribers[k])],
     total_subscribers |-> SumOver([k \in Kinds |-> Cardinality(subscribers[k])], Kinds)]

\* Numbers of the messages the worker has taken out of the queue so far.
Dequeued ==
    {published[i].n : i \in 1..Len(published)}
        \ {message_queue[i].n : i \in 1..Len(message_queue)}

\* The for loop of the worker is iterating the set of kind k.
IteratingOver(k) == workerPc \in {"fanout", "handler"} /\ workerMsg.type = k

\* The iterator after the set of kind k went from S to T.
IterAfter(k, S, T) ==
    IF IteratingOver(k) /\ S # T THEN [workerIter EXCEPT !.dirty = TRUE] ELSE workerIter

callFrame == <<message_queue, broker_stop_event, workerPc, workerMsg, workerTodo, workerCur,
               delivered, raisedIn, pubState, shutdownState>>

\* subscribe(subscriber, message_types) is entered.
SubscribeCall(s, message_types) ==
    /\ subCall[s].op = "none"
    /\ nSubCalls < MaxSubCalls
    /\ message_types # {}
    /\ subCall' = [subCall EXCEPT ![s] = [op |-> "subscribe", todo |-> message_types,
                                          kinds |-> message_types]]
    /\ unsubDone' = [unsubDone EXCEPT ![s] =
                        [k \in Kinds |-> IF k \in message_types THEN NotUnsubscribed ELSE @[k]]]
    /\ nSubCalls' = nSubCalls + 1
    /\ UNCHANGED <<subscribers, subLog, workerIter, fanoutKept, callFrame>>
    /\ UNCHANGED simVars

\* One turn of `for msg_type in message_types:` of subscribe; after the last
\* turn the call returns.
SubscribeAdd(s) ==
    /\ subCall[s].op = "subscribe"
    /\ \E k \in subCall[s].todo :
        /\ subscribers' = [subscribers EXCEPT ![k] = SetAdd(@, s)]
        /\ subLog' = [subLog EXCEPT ![k] = Append(@, s)]
        /\ workerIter' = IterAfter(k, subscribers[k], subscribers'[k])
        /\ fanoutKept' = fanoutKept
        /\ subCall' = [subCall EXCEPT ![s] =
                          IF subCall[s].todo = {k} THEN NoCall
                          ELSE [@ EXCEPT !.todo = @ \ {k}]]
    /\ UNCHANGED <<unsubDone, nSubCalls, callFrame>>
    /\ UNCHANGED simVars

\* unsubscribe(subscriber, message_types) is entered.
UnsubscribeCall(s, message_types) ==
    /\ subCall[s].op = "none"
    /\ nSubCalls < MaxSubCalls
    /\ message_types # {}
    /\ subCall' = [subCall EXCEPT ![s] = [op |-> "unsubscribe", todo |-> message_types,
                                          kinds |-> message_types]]
    /\ nSubCalls' = nSubCalls + 1
    /\ UNCHANGED <<subscribers, subLog, unsubDone, workerIter, fanoutKept, callFrame>>
    /\ UNCHANGED simVars

\* unsubscribe(subscriber): `if message_types is None: message_types =
\* list(MessageType)`.
UnsubscribeAllCall(s) ==
    /\ subCall[s].op = "none"
    /\ nSubCalls < MaxSubCalls
    /\ subCall' = [subCall EXCEPT ![s] = [op |-> "unsubscribe_all", todo |-> Kinds,
                                          kinds |-> Kinds]]
    /\ nSubCalls' = nSubCalls + 1
    /\ UNCHANGED <<subscribers, subLog, unsubDone, workerIter, fanoutKept, callFrame>>
    /\ UNCHANGED simVars

\* One turn of `for msg_type in message_types:` of unsubscribe:
\* `if subscriber in self._subscribers[msg_type]: ....remove(subscriber)`;
\* after the last turn the call returns.
UnsubscribeRemove(s) ==
    /\ subCall[s].op \in {"unsubscribe", "unsubscribe_all"}
    /\ \E k \in subCall[s].todo :
        /\ subscribers' = [subscribers EXCEPT ![k] = IF s \in @ THEN SetRemove(@, s) ELSE @]
        /\ subLog' = [subLog EXCEPT ![k] = SelectSeq(@, LAMBDA x : x # s)]
        /\ workerIter' = IterAfter(k, subscribers[k], subscribers'[k])
        /\ fanoutKept' = IF IteratingOver(k) THEN fanoutKept \cap subscribers'[k]
                                          ELSE fanoutKept
        /\ IF subCall[s].todo = {k}
           THEN /\ subCall' = [subCall EXCEPT ![s] = NoCall]
                /\ unsubDone' = [unsubDone EXCEPT ![s] =
                      [j \in Kinds |-> IF j \in subCall[s].kinds
                                       THEN [on |-> TRUE, seen |-> Dequeued] ELSE @[j]]]
           ELSE /\ subCall' = [subCall EXCEPT ![s].todo = @ \ {k}]
                /\ UNCHANGED unsubDone
    /\ UNCHANGED <<nSubCalls, callFrame>>
    /\ UNCHANGED simVars

(***************************************************************************)
(* Bounds of the entity model.                                             *)
(***************************************************************************)
NStops == 2          \* stops; one route visits them all in order
NBuses == 2          \* bus objects, all on that route
NSeedBuses == 1      \* buses the seed creates (each gets a thread and an adapter)
NPassengers == 2     \* passengers the seed may create
MaxCapacity == 2     \* largest Bus.capacity
MaxRequests == 1     \* messages the message generator publishes in one run
MaxCalls == 3        \* direct calls of bus_arrival / bus_departure in one run
NStations == 1
NGenerators == 2     \* message-generator threads started by start_simulation
NIntersections == 1
MaxListCalls == 1    \* direct calls of add_passenger / remove_passenger in one run
NNodes == 3           \* origins that connect_to / add_neighboring_stop are called on
NRoutes == 2         \* routes: the one the buses run and one that starts at the intersection
MaxQueue == 2        \* longest Stop.bus_queue a run lets grow

StopCapacity == 50   \* Stop.capacity

Stops == 1..NStops
Nodes == 1..NNodes
Buses == 1..NBuses
Passengers == 1..NPassengers
None == 0

\* Route.stop_list of the one route, and the helpers of list.index / slices.
route_stops == [i \in 1..NStops |-> i]
RouteIndex(s) == CHOOSE i \in 1..Len(route_stops) : route_stops[i] = s
RouteFrom(i) == {route_stops[j] : j \in i..Len(route_stops)}

\* The routes.  Route 1 is the route of the line every bus is on
\* (line.routes[0], which _initialize_buses gives to the bus); every other
\* route runs from the last stop of route 1 back to its first stop and
\* starts at the intersection (Route.origin_start).  The last stop of
\* route 1 is in the intersection's stop_list.
Routes == 1..NRoutes
route_stop_list(r) == IF r = 1 THEN route_stops ELSE <<route_stops[NStops], route_stops[1]>>
route_origin_start(r) == IF r = 1 THEN "station" ELSE "intersection"
intersection_stop_list == {route_stops[NStops]}
line_routes == [r \in Routes |-> r]

\* Line.find_next_route for the intersection: the first route of the line
\* that starts at the intersection and has a stop in its stop_list, or None.
find_next_route(stop_list) ==
    LET continues(r) == /\ route_origin_start(r) = "intersection"
                        /\ \E s \in SeqRange(route_stop_list(r)) : s \in stop_list
    IN IF \E i \in DOMAIN line_routes : continues(line_routes[i])
       THEN line_routes[CHOOSE i \in DOMAIN line_routes :
                           /\ continues(line_routes[i])
                           /\ \A j \in 1..(i - 1) : ~continues(line_routes[j])]
       ELSE None

\* list.remove(x): the first occurrence goes.
Remove(s, x) ==
    IF x \notin SeqRange(s) THEN s
    ELSE SubSeq(s, 1, IndexOf(s, x) - 1) \o SubSeq(s, IndexOf(s, x) + 1, Len(s))

(***************************************************************************)
(* Destinations.  A Station carries the stops of the station in stop_list. *)
(* A Stop is an Origin too, and Origin.__init__ gives it a stop_list,      *)
(* which stays empty.                                                      *)
(***************************************************************************)
Station(stop_list) == [kind |-> "station", stop_id |-> None, stop_list |-> stop_list]
StopDestination(s) == [kind |-> "stop", stop_id |-> s, stop_list |-> {}]
NoDestination == [kind |-> "none", stop_id |-> None, stop_list |-> {}]
Destinations == {Station({route_stops[NStops]}), StopDestination(route_stops[NStops])}

\* `passenger.destination == stop`
DestinationIs(d, s) == d.kind = "stop" /\ d.stop_id = s

(***************************************************************************)
(* Constructors.                                                           *)
(***************************************************************************)
NewStop ==
    [passenger_list |-> <<>>, waiting_passengers |-> <<>>, is_occupied |-> FALSE,
     bus_queue |-> <<>>, current_buses |-> {}]

NewBus(capacity, current_stop) ==
    [capacity |-> capacity, passenger_list |-> <<>>, current_stop |-> current_stop,
     current_route |-> line_routes[1]]

NewPassenger(destination, current_stop) ==
    [status |-> "waiting", current_bus |-> None, current_stop |-> current_stop,
     destination |-> destination]

(***************************************************************************)
(* models/bus.py                                                           *)
(***************************************************************************)
can_accept_passengers(bus) == Len(bus.passenger_list) + 1 <= bus.capacity
is_full(bus) == Len(bus.passenger_list) >= bus.capacity

(***************************************************************************)
(* models/stop.py                                                          *)
(***************************************************************************)
stop_add_passenger(st, p) ==
    IF Len(st.passenger_list) + 1 <= StopCapacity
    THEN [st EXCEPT !.passenger_list = Append(@, p), !.waiting_passengers = Append(@, p)]
    ELSE st

\* Mutant of stop_remove_passenger: the waiting list keeps the passenger.
stop_remove_passenger_KeepsWaiting(st, p) ==
    IF p \in SeqRange(st.passenger_list)
    THEN [st EXCEPT !.passenger_list = Remove(@, p)]
    ELSE st

stop_remove_passenger(st, p) ==
    IF p \in SeqRange(st.passenger_list)
    THEN [st EXCEPT !.passenger_list = Remove(@, p), !.waiting_passengers = Remove(@, p)]
    ELSE st

bus_arrival(st, b) ==
    IF st.is_occupied
    THEN [st EXCEPT !.bus_queue = Append(@, b)]
    ELSE [st EXCEPT !.is_occupied = TRUE, !.current_buses = @ \cup {b}]

\* bus_departure that forgets the buses waiting in the queue.
bus_departure_NoPromotion(st, b) ==
    IF b \notin st.current_buses THEN st
    ELSE [st EXCEPT !.current_buses = @ \ {b},
                    !.is_occupied = (st.current_buses \ {b} # {})]

bus_departure(st, b) ==
    IF b \notin st.current_buses THEN st
    ELSE IF st.current_buses \ {b} # {}
         THEN [st EXCEPT !.current_buses = @ \ {b}]
         ELSE IF st.bus_queue # <<>>
              THEN [st EXCEPT !.current_buses = {Head(st.bus_queue)},
                              !.bus_queue = Tail(@),
                              !.is_occupied = TRUE]
              ELSE [st EXCEPT !.current_buses = {}, !.is_occupied = FALSE]

(***************************************************************************)
(* models/passenger.py                                                     *)
(***************************************************************************)
\* is_at_destination: both tests are isinstance tests against the classes
\* passenger.py imports as models.stop.Stop and models.station.Station.  The
\* seed builds the entities from src.models.stop / src.models.station, which
\* Python loads as other modules, so the tests fail for them; they succeed for
\* entities built from the classes passenger.py imports.
is_at_destination(pa) ==
    /\ pa.current_stop # None
    /\ pa.destination.kind # "none"
    /\ isinstanceOk
    /\ IF pa.destination.kind = "stop"
       THEN pa.current_stop = pa.destination.stop_id
       ELSE pa.current_stop \in pa.destination.stop_list

\* Status board_bus leaves behind it.
BoardedStatus_StaysBoarding == "boarding"

BoardedStatus == "in_bus"

(***************************************************************************)
(* core/bus_thread.py, core/passenger_thread.py: eligibility tests.        *)
(* `hasattr(destination, 'stop_list')` holds for stations and for stops,   *)
(* so the branch for a destination that is a stop is never taken and the   *)
(* loop runs over the stop's empty stop_list.                              *)
(***************************************************************************)
_should_passenger_alight(pa, current_stop) ==
    \/ DestinationIs(pa.destination, current_stop)
    \/ current_stop \in pa.destination.stop_list

_can_accept_passenger(bus, pa) ==
    \E s \in pa.destination.stop_list : s \in RouteFrom(RouteIndex(bus.current_stop))

_can_board_bus(pa, bus) ==
    \E s \in pa.destination.stop_list :
        /\ s \in SeqRange(route_stops)
        /\ RouteIndex(bus.current_stop) < RouteIndex(s)

_should_alight_at_stop(pa, stop) ==
    \/ DestinationIs(pa.destination, stop)
    \/ stop \in pa.destination.stop_list

(***************************************************************************)
(* Initial states.  STSSeed._create_passengers adds every passenger to its *)
(* origin stop; _initialize_buses puts every bus at the first stop of its  *)
(* route, without announcing it to the stop.                               *)
(***************************************************************************)
NoSimMsg == [kind |-> "none", passenger_id |-> None, stop_id |-> None, sender |-> None]

SeedStop(k) ==
    [NewStop EXCEPT !.passenger_list = [i \in 1..k |-> i],
                    !.waiting_passengers = [i \in 1..k |-> i]]

\* k passengers waiting at stop `at`, nb buses of the given capacity there.
SeededAt(at, k, nb, dests, capacity) ==
    /\ seed_passengers = 1..k
    /\ seed_buses = 1..nb
    /\ passengers = [p \in Passengers |->
                        IF p <= k THEN NewPassenger(dests[p], at)
                                  ELSE NewPassenger(NoDestination, None)]
    /\ stops = [s \in Stops |-> IF s = at THEN SeedStop(k) ELSE NewStop]
    /\ buses = [b \in Buses |-> NewBus(capacity, at)]

Seeded(k, nb, dests, capacity) == SeededAt(route_stops[1], k, nb, dests, capacity)

\* Mutant of _verify_and_fix_bus_initialization: the bus is left as it is.
_verify_and_fix_bus_initialization_Skipped(bus) == bus

\* BusThread._verify_and_fix_bus_initialization, which BusThread.__init__
\* calls: a bus without a stop, or with a stop that is not on its route,
\* is put at the first stop of its route.
_verify_and_fix_bus_initialization(bus) ==
    IF \/ bus.current_stop = None
       \/ bus.current_stop \notin SeqRange(route_stop_list(bus.current_route))
    THEN [bus EXCEPT !.current_stop = route_stop_list(bus.current_route)[1]]
    ELSE bus

\* The seed's entities with buses left at `raw` (a stop or None), and the
\* bus threads constructed over them.
SeededRaw(raw, k, nb, dests, capacity) ==
    /\ seed_passengers = 1..k
    /\ seed_buses = 1..nb
    /\ passengers = [p \in Passengers |->
                        IF p <= k THEN NewPassenger(dests[p], route_stops[1])
                                  ELSE NewPassenger(NoDestination, None)]
    /\ stops = [s \in Stops |-> IF s = route_stops[1] THEN SeedStop(k) ELSE NewStop]
    /\ buses = [b \in Buses |->
                   _verify_and_fix_bus_initialization(NewBus(capacity, raw))]

\* No connection call made yet.
NoGraphCall == [call |-> "none", self |-> None, other |-> None, result |-> FALSE]

\* Origin.__init__: `self.connected_origins = []`; Stop.__init__ as
\* _create_stops calls it: `neighboring_stops=set()`.
GraphBuilt ==
    /\ connected_origins = [n \in Nodes |-> <<>>]
    /\ neighboring_stops = [n \in Nodes |-> {}]
    /\ graphLast = NoGraphCall

\* The StopThread, StationThread and IntersectionThread objects.
\* The generator threads start_simulation starts.
Generators == 1..NGenerators

LoopThreads ==
    {<<"stop", s>> : s \in Stops} \cup {<<"station", i>> : i \in 1..NStations}
        \cup {<<"intersection", i>> : i \in 1..NIntersections}

ThreadsCreated ==
    /\ busPc = [b \in Buses |-> "exchange"]
    /\ busTodo = [b \in Buses |-> <<>>]
    /\ busCur = [b \in Buses |-> None]
    /\ passPc = [p \in Passengers |-> IF p \in seed_passengers THEN "loop" ELSE "done"]
    /\ passArg = [p \in Passengers |-> None]
    /\ simQueue = <<>>
    /\ adPc = "idle"
    /\ adMsg = NoSimMsg
    /\ adTodo = {}
    /\ adBus = None
    /\ stopLog = <<>>
    /\ mvPc = [b \in Buses |-> "idle"]
    /\ mvNext = [b \in Buses |-> None]
    /\ stPc = [s \in Stops |-> "idle"]
    /\ stNext = [s \in Stops |-> None]
    /\ enqueued = [s \in Stops |-> <<>>]
    /\ mvLog = [b \in Buses |-> <<>>]
    /\ sim_stop_event = FALSE
    /\ loopPc = [th \in LoopThreads |-> "head"]
    /\ simPc = "running"
    /\ joined = 0
    /\ msg_stop_event = FALSE
    /\ genPc = [g \in Generators |-> "head"]
    /\ msgPc = "running"
    /\ GraphBuilt
    /\ seeded = [stops |-> stops, buses |-> buses]

\* The entities before the seed creates passengers; no generator.
InitEntitiesIdle ==
    /\ Seeded(0, 0, [p \in Passengers |-> NoDestination], MaxCapacity)
    /\ isinstanceOk = FALSE
    /\ ThreadsCreated
    /\ nRequests = MaxRequests

\* The broker with no traffic but the adapters' passenger messages.
InitBrokerIdle ==
    /\ subscribers = [k \in Kinds |-> {}]
    /\ BrokerFresh

\* The simulation with the message adapters and the message generator.
InitSim ==
    /\ InitBrokerIdle
    /\ \E nb \in 1..NSeedBuses, dests \in [Passengers -> Destinations],
          capacity \in 1..MaxCapacity :
          Seeded(NPassengers, nb, dests, capacity)
    /\ isinstanceOk \in BOOLEAN
    /\ ThreadsCreated
    /\ nRequests = 0

\* The base simulation: agents only.
InitAgents ==
    /\ InitBrokerIdle
    /\ \E k \in 1..NPassengers, nb \in 1..NSeedBuses,
          dests \in [Passengers -> Destinations], capacity \in 1..MaxCapacity :
          Seeded(k, nb, dests, capacity)
    /\ isinstanceOk \in BOOLEAN
    /\ ThreadsCreated
    /\ nRequests = MaxRequests

(***************************************************************************)
(* BusThread.run, one bus.                                                 *)
(***************************************************************************)
\* _handle_alighting: remove_passenger for every passenger of the bus that
\* _should_passenger_alight names.
BusAlighting(b) ==
    /\ busPc[b] = "exchange"
    /\ ~sim_stop_event
    /\ LET out == {p \in SeqRange(buses[b].passenger_list) :
                      _should_passenger_alight(passengers[p], buses[b].current_stop)} IN
        /\ buses' = [buses EXCEPT ![b].passenger_list = SelectSeq(@, LAMBDA p : p \notin out)]
        /\ passengers' = [p \in Passengers |->
                            IF p \in out THEN [passengers[p] EXCEPT !.current_bus = None]
                                         ELSE passengers[p]]
    /\ busPc' = [busPc EXCEPT ![b] = "board"]
    /\ UNCHANGED <<stops, busTodo, busCur, seedVars, passThread, consumer, stopLog, restVars>>

\* _handle_boarding: `if is_full(): return`, else copy the waiting list.
BusBoardStart(b) ==
    /\ busPc[b] = "board"
    /\ IF is_full(buses[b])
       THEN /\ busPc' = [busPc EXCEPT ![b] = "move"]
            /\ UNCHANGED busTodo
       ELSE /\ busTodo' = [busTodo EXCEPT ![b] = stops[buses[b].current_stop].waiting_passengers]
            /\ busPc' = [busPc EXCEPT ![b] = "iter"]
    /\ UNCHANGED <<buses, stops, passengers, busCur, seedVars, passThread, consumer,
                   stopLog, restVars>>

\* One turn of the for loop up to the capacity test inside add_passenger.
BusBoardIter(b) ==
    /\ busPc[b] = "iter"
    /\ IF busTodo[b] = <<>>
       THEN /\ busPc' = [busPc EXCEPT ![b] = "move"]
            /\ UNCHANGED <<busTodo, busCur>>
       ELSE /\ busTodo' = [busTodo EXCEPT ![b] = Tail(@)]
            /\ IF /\ can_accept_passengers(buses[b])
                  /\ _can_accept_passenger(buses[b], passengers[Head(busTodo[b])])
               THEN /\ busCur' = [busCur EXCEPT ![b] = Head(busTodo[b])]
                    /\ busPc' = [busPc EXCEPT ![b] = "append"]
               ELSE UNCHANGED <<busCur, busPc>>
    /\ UNCHANGED <<buses, stops, passengers, seedVars, passThread, consumer, stopLog,
                   restVars>>

\* add_passenger after its test: append, then passenger.current_bus = self.
BusAddAppend(b) ==
    /\ busPc[b] = "append"
    /\ buses' = [buses EXCEPT ![b].passenger_list = Append(@, busCur[b])]
    /\ passengers' = [passengers EXCEPT ![busCur[b]].current_bus = b]
    /\ busPc' = [busPc EXCEPT ![b] = "stop_remove"]
    /\ UNCHANGED <<stops, busTodo, busCur, seedVars, passThread, consumer, stopLog, restVars>>

\* current_stop.remove_passenger(passenger)
BusStopRemove(b) ==
    /\ busPc[b] = "stop_remove"
    /\ stops' = [stops EXCEPT ![buses[b].current_stop] = stop_remove_passenger(@, busCur[b])]
    /\ busCur' = [busCur EXCEPT ![b] = None]
    /\ busPc' = [busPc EXCEPT ![b] = "iter"]
    /\ UNCHANGED <<buses, passengers, busTodo, seedVars, passThread, consumer, stopLog,
                   restVars>>

\* _move_to_next_stop: bus_departure at the current stop, current_stop = next
\* stop (the first one after the last), bus_arrival at the next stop.
\* A bus that was queued at a stop leaves it without being taken out of the
\* queue, so a queue can grow for ever; the model stops at MaxQueue.
BusMove(b) ==
    /\ busPc[b] = "move"
    /\ LET cur == buses[b].current_stop
           i == RouteIndex(cur)
           next == IF i < Len(route_stops) THEN route_stops[i + 1] ELSE route_stops[1]
           left == [stops EXCEPT ![cur] = bus_departure(@, b)] IN
        /\ left[next].is_occupied => Len(left[next].bus_queue) < MaxQueue
        /\ stops' = [left EXCEPT ![next] = bus_arrival(@, b)]
        /\ buses' = [buses EXCEPT ![b].current_stop = next]
    /\ busPc' = [busPc EXCEPT ![b] = "exchange"]
    /\ UNCHANGED <<passengers, busTodo, busCur, seedVars, passThread, consumer, stopLog,
                   restVars>>

(***************************************************************************)
(* PassengerThread.run, one passenger.                                     *)
(***************************************************************************)
\* status "waiting": _try_board_bus finds a bus of get_current_buses() that
\* _can_board_bus accepts and board_bus passes its tests and sets BOARDING.
PassTryBoard(p) ==
    /\ passPc[p] = "loop"
    /\ ~sim_stop_event
    /\ passengers[p].status = "waiting"
    /\ passengers[p].current_stop # None
    /\ \E b \in stops[passengers[p].current_stop].current_buses :
          /\ _can_board_bus(passengers[p], buses[b])
          /\ can_accept_passengers(buses[b])
          /\ passArg' = [passArg EXCEPT ![p] = b]
    /\ passengers' = [passengers EXCEPT ![p].status = "boarding"]
    /\ passPc' = [passPc EXCEPT ![p] = "boarding"]
    /\ UNCHANGED <<buses, stops, seedVars, busThread, consumer, stopLog, restVars>>

\* board_bus, the rest: current_bus = bus, status = IN_BUS.
PassBoardDone(p) ==
    /\ passPc[p] = "boarding"
    /\ passengers' = [passengers EXCEPT ![p].current_bus = passArg[p],
                                        ![p].status = BoardedStatus]
    /\ passPc' = [passPc EXCEPT ![p] = "loop"]
    /\ passArg' = [passArg EXCEPT ![p] = None]
    /\ UNCHANGED <<buses, stops, seedVars, busThread, consumer, stopLog, restVars>>

\* status "in_bus": _check_arrival; alight_bus sets ALIGHTING.
PassCheckArrival(p) ==
    /\ passPc[p] = "loop"
    /\ ~sim_stop_event
    /\ passengers[p].status = "in_bus"
    /\ passengers[p].current_bus # None
    /\ _should_alight_at_stop(passengers[p], buses[passengers[p].current_bus].current_stop)
    /\ passArg' = [passArg EXCEPT ![p] = buses[passengers[p].current_bus].current_stop]
    /\ passengers' = [passengers EXCEPT ![p].status = "alighting"]
    /\ passPc' = [passPc EXCEPT ![p] = "alighting"]
    /\ UNCHANGED <<buses, stops, seedVars, busThread, consumer, stopLog, restVars>>

\* alight_bus: current_bus = None, current_stop = stop, status = WAITING.
PassAlight(p) ==
    /\ passPc[p] = "alighting"
    /\ passengers' = [passengers EXCEPT ![p].current_bus = None,
                                        ![p].current_stop = passArg[p],
                                        ![p].status = "waiting"]
    /\ passPc' = [passPc EXCEPT ![p] = "alighted"]
    /\ passArg' = [passArg EXCEPT ![p] = None]
    /\ UNCHANGED <<buses, stops, seedVars, busThread, consumer, stopLog, restVars>>

\* alight_bus: `if self.is_at_destination(): self.status = ARRIVED`.
PassAlightEnd(p) ==
    /\ passPc[p] = "alighted"
    /\ passengers' = [passengers EXCEPT ![p].status =
                         IF is_at_destination(passengers[p]) THEN "arrived" ELSE @]
    /\ passPc' = [passPc EXCEPT ![p] = "loop"]
    /\ UNCHANGED <<buses, stops, passArg, seedVars, busThread, consumer, stopLog, restVars>>

\* status "arrived": break.
PassExit(p) ==
    /\ passPc[p] = "loop"
    /\ ~sim_stop_event
    /\ passengers[p].status = "arrived"
    /\ passPc' = [passPc EXCEPT ![p] = "done"]
    /\ UNCHANGED <<buses, stops, passengers, passArg, seedVars, busThread, consumer,
                   stopLog, restVars>>

(***************************************************************************)
(* The message variant.  The generator publishes PASSENGER_BOARDING and    *)
(* PASSENGER_ALIGHTING messages (all with status 'confirmed'); the bus     *)
(* adapters and the stop adapters subscribe to both kinds, and the broker's*)
(* consumer thread runs their on_message in turn.                          *)
(***************************************************************************)
PassengerKinds == {"passenger_boarding", "passenger_alighting"}
Adapters == {<<"bus", b>> : b \in seed_buses} \cup {<<"stop", s>> : s \in Stops}

\* Mutant of FreshSeedPassengers: the handler finds the passengers of the run.
FreshSeedPassengers_Shared == Passengers

\* STSSeed(): the `passengers` of a seed just constructed.
FreshSeedPassengers == {}

GeneratorPublish(kind, p, s) ==
    /\ nRequests < MaxRequests
    /\ nRequests' = nRequests + 1
    /\ simQueue' = Append(simQueue, [kind |-> kind, passenger_id |-> p, stop_id |-> s,
                                     sender |-> None])
    /\ UNCHANGED <<buses, stops, passengers, seedVars, busThread, passThread,
                   adPc, adMsg, adTodo, adBus, stopLog, restVars>>

ConsumerGet ==
    /\ adPc = "idle"
    /\ simQueue # <<>>
    /\ adMsg' = Head(simQueue)
    /\ simQueue' = Tail(simQueue)
    /\ adTodo' = Adapters
    /\ adPc' = "fanout"
    /\ UNCHANGED <<buses, stops, passengers, seedVars, busThread, passThread,
                   adBus, nRequests, stopLog, restVars>>

\* MessageBusAdapter._handle_passenger_boarding_request up to the capacity
\* test inside add_passenger.
BusAdapterBoarding(b) ==
    IF /\ buses[b].current_stop = adMsg.stop_id
       /\ can_accept_passengers(buses[b])
       /\ adMsg.passenger_id \in SeqRange(stops[adMsg.stop_id].waiting_passengers)
    THEN /\ adPc' = "append"
         /\ adBus' = b
         /\ UNCHANGED <<buses, stops, passengers, simQueue>>
    ELSE UNCHANGED <<buses, stops, passengers, simQueue, adPc, adBus>>

\* Mutant of BusAdapterAlighting: the passenger stays in the bus.
BusAdapterAlighting_KeepsPassenger(b) ==
    IF /\ buses[b].current_stop = adMsg.stop_id
       /\ adMsg.passenger_id \in SeqRange(buses[b].passenger_list)
    THEN /\ simQueue' = Append(simQueue, [adMsg EXCEPT !.sender = b])
         /\ UNCHANGED <<buses, stops, passengers, adPc, adBus>>
    ELSE UNCHANGED <<buses, stops, passengers, simQueue, adPc, adBus>>

\* MessageBusAdapter._handle_passenger_alighting_request
BusAdapterAlighting(b) ==
    IF /\ buses[b].current_stop = adMsg.stop_id
       /\ adMsg.passenger_id \in SeqRange(buses[b].passenger_list)
    THEN /\ buses' = [buses EXCEPT ![b].passenger_list = Remove(@, adMsg.passenger_id)]
         /\ passengers' = [passengers EXCEPT ![adMsg.passenger_id].current_bus = None]
         /\ simQueue' = Append(simQueue, [adMsg EXCEPT !.sender = b])
         /\ UNCHANGED <<stops, adPc, adBus>>
    ELSE UNCHANGED <<buses, stops, passengers, simQueue, adPc, adBus>>

\* MessageStopAdapter._handle_passenger_boarding_confirmation
StopAdapterBoarding(s) ==
    /\ stops' = [stops EXCEPT ![s] =
                    IF adMsg.stop_id = s /\ adMsg.passenger_id \in SeqRange(@.waiting_passengers)
                    THEN stop_remove_passenger(@, adMsg.passenger_id) ELSE @]
    /\ UNCHANGED <<buses, passengers, simQueue, adPc, adBus>>

\* MessageStopAdapter._handle_passenger_alighting_confirmation: the passenger
\* is looked up in a seed constructed on the spot.
StopAdapterAlighting(s) ==
    IF /\ adMsg.stop_id = s
       /\ adMsg.passenger_id \in FreshSeedPassengers
       /\ adMsg.passenger_id \notin SeqRange(stops[s].passenger_list)
    THEN /\ passengers' = [passengers EXCEPT
                ![adMsg.passenger_id].status =
                    IF DestinationIs(passengers[adMsg.passenger_id].destination, s)
                    THEN "arrived" ELSE "waiting",
                ![adMsg.passenger_id].current_stop = s]
         /\ stops' = [stops EXCEPT ![s] =
                LET added == stop_add_passenger(@, adMsg.passenger_id) IN
                IF /\ ~DestinationIs(passengers[adMsg.passenger_id].destination, s)
                   /\ adMsg.passenger_id \notin SeqRange(added.waiting_passengers)
                THEN [added EXCEPT !.waiting_passengers = Append(@, adMsg.passenger_id)]
                ELSE added]
         /\ UNCHANGED <<buses, simQueue, adPc, adBus>>
    ELSE UNCHANGED <<buses, stops, passengers, simQueue, adPc, adBus>>

\* `self.id`: f"Bus-{bus.id}" for a bus adapter, f"Stop-{stop.stop_id}" for a
\* stop adapter.  A bus adapter's id is written as the number of its bus, a
\* stop adapter's as the negated number of its stop, so that no two adapters
\* share an id and none has the id of the generator (None).
AdapterId(a) == IF a[1] = "bus" THEN a[2] ELSE 0 - a[2]

\* STSSeed(): the `routes` of a seed just constructed.
FreshSeedRoutes == {}

\* MessageBusAdapter._handle_route_update: the route is looked up in a seed
\* constructed on the spot; when it is found the bus takes it, goes to its
\* first stop unless its stop is on it, and the adapter publishes the change.
BusAdapterRouteUpdate(b) ==
    IF /\ adMsg.bus_id = b
       /\ adMsg.route_id # None
       /\ adMsg.route_id \in FreshSeedRoutes
    THEN /\ buses' = [buses EXCEPT
                ![b].current_route = adMsg.route_id,
                ![b].current_stop =
                    IF @ \in SeqRange(route_stop_list(adMsg.route_id))
                    THEN @ ELSE route_stop_list(adMsg.route_id)[1]]
         /\ simQueue' = Append(simQueue, [kind |-> "route_update", bus_id |-> b,
                                          route_id |-> None, sender |-> AdapterId(<<"bus", b>>)])
         /\ UNCHANGED <<stops, passengers, adPc, adBus>>
    ELSE UNCHANGED <<buses, stops, passengers, simQueue, adPc, adBus>>

\* MessageBusAdapter._handle_schedule_update: an update for the whole fleet
\* (bus_id None) or for this bus, carrying schedule_updates, is applied and
\* confirmed by a SCHEDULE_UPDATE message that names this bus and carries no
\* schedule_updates.  The schedule itself is not part of the model.
BusAdapterScheduleUpdate(b) ==
    IF /\ adMsg.bus_id \in {None, b}
       /\ adMsg.schedule_updates
    THEN /\ simQueue' = Append(simQueue, [kind |-> "schedule_update", bus_id |-> b,
                                          stop_id |-> None, schedule_updates |-> FALSE,
                                          sender |-> AdapterId(<<"bus", b>>)])
         /\ UNCHANGED <<buses, stops, passengers, adPc, adBus>>
    ELSE UNCHANGED <<buses, stops, passengers, simQueue, adPc, adBus>>

\* MessageStopAdapter._handle_bus_arrival and _handle_bus_departure: a notice
\* about this stop that names a bus makes the adapter publish the stop's
\* status (publish_stop_status).
StopAdapterBusNotice(s) ==
    IF /\ adMsg.stop_id = s
       /\ adMsg.bus_id # None
    THEN /\ simQueue' = Append(simQueue, [kind |-> "stop_status", bus_id |-> None,
                                          stop_id |-> s, schedule_updates |-> FALSE,
                                          sender |-> AdapterId(<<"stop", s>>)])
         /\ UNCHANGED <<buses, stops, passengers, adPc, adBus>>
    ELSE UNCHANGED <<buses, stops, passengers, simQueue, adPc, adBus>>

\* The dispatch of on_message on the message type.  The bus adapter has no
\* branch for BUS_ARRIVAL and BUS_DEPARTURE, and its handler of STOP_STATUS
\* only records the status in the bus; the stop adapter has no branch for
\* ROUTE_UPDATE, SCHEDULE_UPDATE and STOP_STATUS.
Dispatch(a) ==
    IF a[1] = "bus"
    THEN CASE adMsg.kind = "route_update" -> BusAdapterRouteUpdate(a[2])
           [] adMsg.kind = "passenger_boarding" -> BusAdapterBoarding(a[2])
           [] adMsg.kind = "passenger_alighting" -> BusAdapterAlighting(a[2])
           [] adMsg.kind = "schedule_update" -> BusAdapterScheduleUpdate(a[2])
           [] OTHER -> UNCHANGED <<buses, stops, passengers, simQueue, adPc, adBus>>
    ELSE CASE adMsg.kind \in {"bus_arrival", "bus_departure"} -> StopAdapterBusNotice(a[2])
           [] adMsg.kind = "passenger_boarding" -> StopAdapterBoarding(a[2])
           [] adMsg.kind = "passenger_alighting" -> StopAdapterAlighting(a[2])
           [] OTHER -> UNCHANGED <<buses, stops, passengers, simQueue, adPc, adBus>>

\* Mutant of OnMessage: no test of the sender.
OnMessage_NoSenderTest(a) == Dispatch(a)

\* on_message of one adapter; `if message.sender_id == self.id: return`.
OnMessage(a) ==
    IF adMsg.sender = AdapterId(a)
    THEN UNCHANGED <<buses, stops, passengers, simQueue, adPc, adBus>>
    ELSE Dispatch(a)

\* One turn of the consumer's for loop over the subscribers.
ConsumerDeliver ==
    /\ adPc = "fanout"
    /\ adTodo # {}
    /\ \E a \in adTodo :
          /\ adTodo' = adTodo \ {a}
          /\ OnMessage(a)
    /\ UNCHANGED <<adMsg, nRequests, seedVars, busThread, passThread, stopLog, restVars>>

ConsumerDone ==
    /\ adPc = "fanout"
    /\ adTodo = {}
    /\ adPc' = "idle"
    /\ adMsg' = NoSimMsg
    /\ UNCHANGED <<buses, stops, passengers, seedVars, busThread, passThread,
                   simQueue, adTodo, adBus, nRequests, stopLog, restVars>>

\* add_passenger after its test, called by the bus adapter, then
\* publish_passenger_boarded.
AdapterAddAppend ==
    /\ adPc = "append"
    /\ buses' = [buses EXCEPT ![adBus].passenger_list = Append(@, adMsg.passenger_id)]
    /\ passengers' = [passengers EXCEPT ![adMsg.passenger_id].current_bus = adBus]
    /\ simQueue' = Append(simQueue, [adMsg EXCEPT !.sender = adBus])
    /\ adPc' = "fanout"
    /\ adBus' = None
    /\ UNCHANGED <<stops, adMsg, adTodo, nRequests, seedVars, busThread, passThread,
                   stopLog, restVars>>

\* broker.publish by an adapter of a passenger message under its own id, as
\* publish_passenger_boarded and request_boarding do.
AdapterPublish(a, kind, p, s) ==
    /\ nRequests < MaxRequests
    /\ nRequests' = nRequests + 1
    /\ simQueue' = Append(simQueue, [kind |-> kind, passenger_id |-> p, stop_id |-> s,
                                     sender |-> AdapterId(a)])
    /\ UNCHANGED <<buses, stops, passengers, seedVars, busThread, passThread,
                   adPc, adMsg, adTodo, adBus, stopLog, restVars>>

\* The generator's ROUTE_UPDATE message for a bus and a route of the network.
GeneratorRouteUpdate(b, r) ==
    /\ nRequests < MaxRequests
    /\ nRequests' = nRequests + 1
    /\ simQueue' = Append(simQueue, [kind |-> "route_update", bus_id |-> b,
                                     route_id |-> r, sender |-> None])
    /\ UNCHANGED <<buses, stops, passengers, seedVars, busThread, passThread,
                   adPc, adMsg, adTodo, adBus, stopLog, restVars>>

\* Messages of the other kinds the adapters handle, published from outside
\* them: a bus arrival or departure at a stop, and a schedule update for one
\* bus or for the whole fleet (bus_id None).
NoticeKinds == {"bus_arrival", "bus_departure", "schedule_update"}

GeneratorNotice(kind, b, s) ==
    /\ nRequests < MaxRequests
    /\ nRequests' = nRequests + 1
    /\ simQueue' = Append(simQueue, [kind |-> kind, bus_id |-> b, stop_id |-> s,
                                     schedule_updates |-> (kind = "schedule_update"),
                                     sender |-> None])
    /\ UNCHANGED <<buses, stops, passengers, seedVars, busThread, passThread,
                   adPc, adMsg, adTodo, adBus, stopLog, restVars>>

(***************************************************************************)
(* Direct calls of Stop.add_passenger and Stop.remove_passenger, for any   *)
(* passenger and any stop.                                                 *)
(***************************************************************************)
CallAddPassenger(s, p) ==
    /\ Len(stopLog) < MaxListCalls
    /\ stops' = [stops EXCEPT ![s] = stop_add_passenger(@, p)]
    /\ passengers' = IF Len(stops[s].passenger_list) + 1 <= StopCapacity
                     THEN [passengers EXCEPT ![p].current_stop = s]
                     ELSE passengers
    /\ stopLog' = Append(stopLog, [op |-> "add_passenger", stop |-> s, passenger |-> p])
    /\ UNCHANGED <<buses, seedVars, busThread, passThread, consumer, restVars>>

CallRemovePassenger(s, p) ==
    /\ Len(stopLog) < MaxListCalls
    /\ stops' = [stops EXCEPT ![s] = stop_remove_passenger(@, p)]
    /\ stopLog' = Append(stopLog, [op |-> "remove_passenger", stop |-> s, passenger |-> p])
    /\ UNCHANGED <<buses, passengers, seedVars, busThread, passThread, consumer, restVars>>

(***************************************************************************)
(* Direct calls of Stop.bus_arrival and Stop.bus_departure.                *)
(***************************************************************************)
CallBusArrival(s, b) ==
    /\ Len(stopLog) < MaxCalls
    /\ stops' = [stops EXCEPT ![s] = bus_arrival(@, b)]
    /\ stopLog' = Append(stopLog, [op |-> "bus_arrival", stop |-> s, bus |-> b])
    /\ UNCHANGED <<buses, passengers, seedVars, busThread, passThread, consumer, restVars>>

CallBusDeparture(s, b) ==
    /\ Len(stopLog) < MaxCalls
    /\ stops' = [stops EXCEPT ![s] = bus_departure(@, b)]
    /\ stopLog' = Append(stopLog, [op |-> "bus_departure", stop |-> s, bus |-> b])
    /\ UNCHANGED <<buses, passengers, seedVars, busThread, passThread, consumer, restVars>>

(***************************************************************************)
(* The stop methods step by step.  Stop.bus_arrival and Stop.bus_departure *)
(* take no lock; BusThread._move_to_next_stop calls them from every bus    *)
(* thread and StopThread._manage_bus_queue from the stop's thread, so the  *)
(* reads and writes of is_occupied, current_buses and bus_queue of one     *)
(* stop interleave.                                                        *)
(***************************************************************************)
MaxMoveQueue == 1

moveFrame == <<passengers, seedVars, busThread, passThread, consumer, stopLog, brokerVars,
              ctorVars, haltVars, auxVars>>
moveHist == <<enqueued, mvLog>>

\* Entries of mvLog: the call or assignment of _move_to_next_stop and the
\* stop it concerns.
Did(what, stop) == [did |-> what, stop |-> stop]

\* _move_to_next_stop: `current_index = route_stops.index(current_stop)`,
\* then the stop after it, or the first stop after the last.
NextOnRoute(stop_list, s) ==
    IF IndexOf(stop_list, s) < Len(stop_list) THEN stop_list[IndexOf(stop_list, s) + 1]
                                              ELSE stop_list[1]

\* bus_departure: `if bus not in self.current_buses: return False`,
\* else `self.current_buses.remove(bus)`.
MoveDepart(b) ==
    /\ mvPc[b] = "idle"
    /\ LET cur == buses[b].current_stop IN
        IF b \notin stops[cur].current_buses
        THEN /\ mvPc' = [mvPc EXCEPT ![b] = "leave"]
             /\ UNCHANGED stops
        ELSE /\ stops' = [stops EXCEPT ![cur].current_buses = @ \ {b}]
             /\ mvPc' = [mvPc EXCEPT ![b] = "dep_test"]
    /\ mvLog' = [mvLog EXCEPT ![b] = <<Did("bus_departure", buses[b].current_stop)>>]
    /\ UNCHANGED <<buses, mvNext, stPc, stNext, moveFrame, enqueued>>

\* bus_departure: `if not self.current_buses:`
MoveDepTest(b) ==
    /\ mvPc[b] = "dep_test"
    /\ mvPc' = [mvPc EXCEPT ![b] =
                   IF stops[buses[b].current_stop].current_buses = {} THEN "dep_clear"
                                                                      ELSE "leave"]
    /\ UNCHANGED <<buses, stops, mvNext, stPc, stNext, moveFrame, moveHist>>

\* bus_departure: `self.is_occupied = False`, then `if self.bus_queue:`
MoveDepClear(b) ==
    /\ mvPc[b] = "dep_clear"
    /\ LET cur == buses[b].current_stop IN
        /\ stops' = [stops EXCEPT ![cur].is_occupied = FALSE]
        /\ mvPc' = [mvPc EXCEPT ![b] =
                       IF stops[cur].bus_queue # <<>> THEN "dep_pop" ELSE "leave"]
    /\ UNCHANGED <<buses, mvNext, stPc, stNext, moveFrame, moveHist>>

\* bus_departure: `next_bus = self.bus_queue.popleft()`.  On an empty deque
\* popleft raises IndexError, which _move_to_next_stop catches: it returns
\* False and the bus stays where it is.
MoveDepPop(b) ==
    /\ mvPc[b] = "dep_pop"
    /\ LET cur == buses[b].current_stop IN
        IF stops[cur].bus_queue = <<>>
        THEN /\ mvPc' = [mvPc EXCEPT ![b] = "idle"]
             /\ UNCHANGED <<stops, mvNext>>
        ELSE /\ mvNext' = [mvNext EXCEPT ![b] = Head(stops[cur].bus_queue)]
             /\ stops' = [stops EXCEPT ![cur].bus_queue = Tail(@)]
             /\ mvPc' = [mvPc EXCEPT ![b] = "dep_admit"]
    /\ UNCHANGED <<buses, stPc, stNext, moveFrame, moveHist>>

\* bus_departure: `self.current_buses.add(next_bus)`, `self.is_occupied = True`
MoveDepAdmit(b) ==
    /\ mvPc[b] = "dep_admit"
    /\ stops' = [stops EXCEPT ![buses[b].current_stop].current_buses = @ \cup {mvNext[b]},
                              ![buses[b].current_stop].is_occupied = TRUE]
    /\ mvNext' = [mvNext EXCEPT ![b] = None]
    /\ mvPc' = [mvPc EXCEPT ![b] = "leave"]
    /\ enqueued' = [enqueued EXCEPT ![buses[b].current_stop] = Remove(@, mvNext[b])]
    /\ UNCHANGED <<buses, stPc, stNext, moveFrame, mvLog>>

\* Mutant of MoveArrive: the bus is moved and the new stop is not told.
MoveArrive_Unannounced(b) ==
    /\ mvPc[b] = "leave"
    /\ LET next == NextOnRoute(route_stop_list(buses[b].current_route),
                               buses[b].current_stop) IN
        /\ buses' = [buses EXCEPT ![b].current_stop = next]
        /\ mvLog' = [mvLog EXCEPT ![b] = Append(@, Did("current_stop", next))]
        /\ mvPc' = [mvPc EXCEPT ![b] = "idle"]
    /\ UNCHANGED <<stops, mvNext, stPc, stNext, moveFrame, enqueued>>

\* _move_to_next_stop: `self.component.current_stop = next_stop`, then
\* bus_arrival: `if self.is_occupied:`.  The model lets no queue grow beyond
\* MaxMoveQueue.
MoveArrive(b) ==
    /\ mvPc[b] = "leave"
    /\ LET next == NextOnRoute(route_stop_list(buses[b].current_route),
                               buses[b].current_stop) IN
        /\ stops[next].is_occupied => Len(stops[next].bus_queue) < MaxMoveQueue
        /\ buses' = [buses EXCEPT ![b].current_stop = next]
        /\ mvLog' = [mvLog EXCEPT ![b] = @ \o <<Did("current_stop", next),
                                                 Did("bus_arrival", next)>>]
        /\ mvPc' = [mvPc EXCEPT ![b] =
                       IF stops[next].is_occupied THEN "arr_queue" ELSE "arr_admit"]
    /\ UNCHANGED <<stops, mvNext, stPc, stNext, moveFrame, enqueued>>

\* bus_arrival: `self.bus_queue.append(bus)`; `return False`
MoveArrQueue(b) ==
    /\ mvPc[b] = "arr_queue"
    /\ stops' = [stops EXCEPT ![buses[b].current_stop].bus_queue = Append(@, b)]
    /\ mvPc' = [mvPc EXCEPT ![b] = "idle"]
    /\ enqueued' = [enqueued EXCEPT ![buses[b].current_stop] = Append(@, b)]
    /\ UNCHANGED <<buses, mvNext, stPc, stNext, moveFrame, mvLog>>

\* bus_arrival: `self.is_occupied = True`; `self.current_buses.add(bus)`
MoveArrAdmit(b) ==
    /\ mvPc[b] = "arr_admit"
    /\ stops' = [stops EXCEPT ![buses[b].current_stop].is_occupied = TRUE,
                              ![buses[b].current_stop].current_buses = @ \cup {b}]
    /\ mvPc' = [mvPc EXCEPT ![b] = "idle"]
    /\ UNCHANGED <<buses, mvNext, stPc, stNext, moveFrame, moveHist>>

\* _manage_bus_queue: `if not is_occupied and len(bus_queue) > 0:`
StopQueueTest(s) ==
    /\ stPc[s] = "idle"
    /\ ~stops[s].is_occupied
    /\ stops[s].bus_queue # <<>>
    /\ stPc' = [stPc EXCEPT ![s] = "pop"]
    /\ UNCHANGED <<buses, stops, mvPc, mvNext, stNext, moveFrame, moveHist>>

\* _manage_bus_queue: `next_bus = bus_queue.popleft()`.  StopThread.run has
\* no try: the IndexError of an empty deque ends the thread.
StopQueuePop(s) ==
    /\ stPc[s] = "pop"
    /\ IF stops[s].bus_queue = <<>>
       THEN /\ stPc' = [stPc EXCEPT ![s] = "dead"]
            /\ UNCHANGED <<stops, stNext>>
       ELSE /\ stNext' = [stNext EXCEPT ![s] = Head(stops[s].bus_queue)]
            /\ stops' = [stops EXCEPT ![s].bus_queue = Tail(@)]
            /\ stPc' = [stPc EXCEPT ![s] = "arr_test"]
    /\ UNCHANGED <<buses, mvPc, mvNext, moveFrame, moveHist>>

\* _manage_bus_queue: bus_arrival(next_bus), `if self.is_occupied:`
StopArrTest(s) ==
    /\ stPc[s] = "arr_test"
    /\ stPc' = [stPc EXCEPT ![s] = IF stops[s].is_occupied THEN "arr_queue" ELSE "arr_admit"]
    /\ UNCHANGED <<buses, stops, mvPc, mvNext, stNext, moveFrame, moveHist>>

StopArrQueue(s) ==
    /\ stPc[s] = "arr_queue"
    /\ stops' = [stops EXCEPT ![s].bus_queue = Append(@, stNext[s])]
    /\ stNext' = [stNext EXCEPT ![s] = None]
    /\ stPc' = [stPc EXCEPT ![s] = "idle"]
    /\ enqueued' = [enqueued EXCEPT ![s] = Append(Remove(@, stNext[s]), stNext[s])]
    /\ UNCHANGED <<buses, mvPc, mvNext, moveFrame, mvLog>>

StopArrAdmit(s) ==
    /\ stPc[s] = "arr_admit"
    /\ stops' = [stops EXCEPT ![s].is_occupied = TRUE,
                              ![s].current_buses = @ \cup {stNext[s]}]
    /\ stNext' = [stNext EXCEPT ![s] = None]
    /\ stPc' = [stPc EXCEPT ![s] = "idle"]
    /\ enqueued' = [enqueued EXCEPT ![s] = Remove(@, stNext[s])]
    /\ UNCHANGED <<buses, mvPc, mvNext, moveFrame, mvLog>>

\* Buses and stops with their threads, no passengers.
InitMove ==
    /\ InitBrokerIdle
    /\ Seeded(0, NBuses, [p \in Passengers |-> NoDestination], MaxCapacity)
    /\ isinstanceOk = FALSE
    /\ ThreadsCreated
    /\ nRequests = MaxRequests

NextMove ==
    \/ \E b \in seed_buses : MoveDepart(b)
    \/ \E b \in seed_buses : MoveDepTest(b)
    \/ \E b \in seed_buses : MoveDepClear(b)
    \/ \E b \in seed_buses : MoveDepPop(b)
    \/ \E b \in seed_buses : MoveDepAdmit(b)
    \/ \E b \in seed_buses : MoveArrive(b)
    \/ \E b \in seed_buses : MoveArrQueue(b)
    \/ \E b \in seed_buses : MoveArrAdmit(b)
    \/ \E s \in Stops : StopQueueTest(s)
    \/ \E s \in Stops : StopQueuePop(s)
    \/ \E s \in Stops : StopArrTest(s)
    \/ \E s \in Stops : StopArrQueue(s)
    \/ \E s \in Stops : StopArrAdmit(s)

SpecMove == InitMove /\ [][NextMove]_vars

(***************************************************************************)
(* MessageBroker(): __new__ runs under the class lock; __init__ takes no   *)
(* lock, and its test of _initialized and the assignments that follow are  *)
(* separate statements.                                                    *)
(***************************************************************************)
ctorFrame == <<buses, stops, passengers, seedVars, busThread, passThread, consumer, stopLog,
               raceVars, brokerVars, haltVars, auxVars>>

\* __new__: `with cls._lock: if cls._instance is None: cls._instance = ...;
\* cls._instance._initialized = False; return cls._instance`
CtorNew(t) ==
    /\ ctorPc[t] = "new"
    /\ nInstances' = IF nInstances = 0 THEN 1 ELSE nInstances
    /\ initialized' = IF nInstances = 0 THEN FALSE ELSE initialized
    /\ ctorPc' = [ctorPc EXCEPT ![t] = "init_test"]
    /\ UNCHANGED <<nTables, nQueues, nWorkers, ctorFrame>>

\* __init__: `if self._initialized: return`
CtorInitTest(t) ==
    /\ ctorPc[t] = "init_test"
    /\ ctorPc' = [ctorPc EXCEPT ![t] = IF initialized THEN "done" ELSE "init_mark"]
    /\ UNCHANGED <<nInstances, initialized, nTables, nQueues, nWorkers, ctorFrame>>

\* __init__: `self._initialized = True`
CtorInitMark(t) ==
    /\ ctorPc[t] = "init_mark"
    /\ initialized' = TRUE
    /\ ctorPc' = [ctorPc EXCEPT ![t] = "init_tables"]
    /\ UNCHANGED <<nInstances, nTables, nQueues, nWorkers, ctorFrame>>

\* __init__: `self._subscribers = {msg_type: set() for msg_type in MessageType}`
CtorInitTables(t) ==
    /\ ctorPc[t] = "init_tables"
    /\ nTables' = nTables + 1
    /\ ctorPc' = [ctorPc EXCEPT ![t] = "init_queue"]
    /\ UNCHANGED <<nInstances, initialized, nQueues, nWorkers, ctorFrame>>

\* __init__: `self._message_queue = queue.Queue()`
CtorInitQueue(t) ==
    /\ ctorPc[t] = "init_queue"
    /\ nQueues' = nQueues + 1
    /\ ctorPc' = [ctorPc EXCEPT ![t] = "init_worker"]
    /\ UNCHANGED <<nInstances, initialized, nTables, nWorkers, ctorFrame>>

\* __init__: `self._worker_thread = threading.Thread(...)`; `.start()`
CtorInitWorker(t) ==
    /\ ctorPc[t] = "init_worker"
    /\ nWorkers' = nWorkers + 1
    /\ ctorPc' = [ctorPc EXCEPT ![t] = "done"]
    /\ UNCHANGED <<nInstances, initialized, nTables, nQueues, ctorFrame>>

\* The class as loaded: no instance yet; every thread is about to call
\* MessageBroker().
InitCtor ==
    /\ ctorPc = [t \in CtorThreads |-> "new"]
    /\ nInstances = 0
    /\ initialized = FALSE
    /\ nTables = 0
    /\ nQueues = 0
    /\ nWorkers = 0
    /\ subscribers = [k \in Kinds |-> {}]
    /\ BrokerIdle
    /\ InitEntitiesIdle

NextCtor ==
    \/ \E t \in CtorThreads : CtorNew(t)
    \/ \E t \in CtorThreads : CtorInitTest(t)
    \/ \E t \in CtorThreads : CtorInitMark(t)
    \/ \E t \in CtorThreads : CtorInitTables(t)
    \/ \E t \in CtorThreads : CtorInitQueue(t)
    \/ \E t \in CtorThreads : CtorInitWorker(t)

SpecCtor == InitCtor /\ [][NextCtor]_vars

(***************************************************************************)
(* The loops of the threads and SimulationManager.stop_simulation.  Every  *)
(* run() is `while not self.stop_event.is_set(): <one cycle>`; the cycles  *)
(* of StopThread, StationThread and IntersectionThread read the entities   *)
(* and sleep.                                                              *)
(***************************************************************************)
haltFrame == <<seedVars, busTodo, busCur, passArg, consumer, stopLog, raceVars, ctorVars,
               brokerVars, auxVars>>

\* Mutant of LoopAfterTest: the loop never looks at the event.
LoopAfterTest_Ignores(stopSet) == "head"

\* `while not self.stop_event.is_set():` of a StopThread, StationThread or
\* IntersectionThread: run() returns, or one more cycle is made and the
\* thread is back at the test.
LoopAfterTest(stopSet) == IF stopSet THEN "ended" ELSE "head"

\* BusThread.run: the `while` test finds the event set.
BusLeavesLoop(b) ==
    /\ busPc[b] = "exchange"
    /\ sim_stop_event
    /\ busPc' = [busPc EXCEPT ![b] = "stopped"]
    /\ UNCHANGED <<buses, stops, passengers, passPc, haltVars, haltFrame>>

\* PassengerThread.run: the `while` test finds the event set.
PassLeavesLoop(p) ==
    /\ passPc[p] = "loop"
    /\ sim_stop_event
    /\ passPc' = [passPc EXCEPT ![p] = "done"]
    /\ UNCHANGED <<buses, stops, passengers, busPc, haltVars, haltFrame>>

\* StopThread._manage_bus_queue, as one step.
_manage_bus_queue(st) ==
    IF ~st.is_occupied /\ st.bus_queue # <<>>
    THEN bus_arrival([st EXCEPT !.bus_queue = Tail(@)], Head(st.bus_queue))
    ELSE st

\* The `while` test and, when the event is not set, one cycle:
\* _manage_bus_queue and _manage_waiting_passengers of a stop, _monitor_stops
\* of a station, _monitor_traffic of an intersection; then the sleep.
LoopTurn(th) ==
    /\ loopPc[th] = "head"
    /\ loopPc' = [loopPc EXCEPT ![th] = LoopAfterTest(sim_stop_event)]
    /\ stops' = IF ~sim_stop_event /\ th[1] = "stop"
                THEN [stops EXCEPT ![th[2]] = _manage_bus_queue(@)]
                ELSE stops
    /\ UNCHANGED <<buses, passengers, busPc, passPc, sim_stop_event, simPc, joined,
                   haltFrame>>

\* self.threads, in the order of _create_all_threads.
Threads ==
    [i \in 1..Cardinality(seed_passengers) |-> <<"passenger", i>>]
        \o [i \in 1..Cardinality(seed_buses) |-> <<"bus", i>>]
        \o [i \in 1..NStops |-> <<"stop", i>>]
        \o [i \in 1..NStations |-> <<"station", i>>]
        \o [i \in 1..NIntersections |-> <<"intersection", i>>]

\* The thread's run() has returned.
Ended(th) ==
    IF th[1] = "passenger" THEN passPc[th[2]] = "done"
    ELSE IF th[1] = "bus" THEN busPc[th[2]] = "stopped"
    ELSE loopPc[th] = "ended"

\* stop_simulation: `self.stop_event.set()`
StopSimulation ==
    /\ simPc = "running"
    /\ sim_stop_event' = TRUE
    /\ simPc' = "joining"
    /\ UNCHANGED <<buses, stops, passengers, busPc, passPc, loopPc, joined, haltFrame>>

\* stop_simulation: one `thread.join()` of `for thread in self.threads:`
JoinThread ==
    /\ simPc = "joining"
    /\ joined < Len(Threads)
    /\ Ended(Threads[joined + 1])
    /\ joined' = joined + 1
    /\ UNCHANGED <<buses, stops, passengers, busPc, passPc, sim_stop_event, loopPc, simPc,
                   haltFrame>>

\* stop_simulation: the for loop is over, the call returns.
StopSimulationReturns ==
    /\ simPc = "joining"
    /\ joined = Len(Threads)
    /\ simPc' = "returned"
    /\ UNCHANGED <<buses, stops, passengers, busPc, passPc, sim_stop_event, loopPc, joined,
                   haltFrame>>

(***************************************************************************)
(* The graph of origins.  Origin.connect_to / disconnect_from keep the     *)
(* lists connected_origins; Stop.add_neighboring_stop /                    *)
(* remove_neighboring_stop keep the sets neighboring_stops (a Stop is an   *)
(* Origin and has both).  The seed and the constructors of Station and     *)
(* Intersection call them from one thread, one call after the other.       *)
(***************************************************************************)
\* Mutant of connect_to: the other origin's list is left alone.
connect_to_OneWay(C, self, other) ==
    IF other \in SeqRange(C[self]) THEN C ELSE [C EXCEPT ![self] = Append(@, other)]

\* Origin.connect_to: the lists after the call.
connect_to(C, self, other) ==
    IF other \in SeqRange(C[self])
    THEN C
    ELSE LET C1 == [C EXCEPT ![self] = Append(@, other)] IN
         IF self \notin SeqRange(C1[other]) THEN [C1 EXCEPT ![other] = Append(@, self)]
                                            ELSE C1

\* Origin.disconnect_from: the lists after the call.
disconnect_from(C, self, other) ==
    IF other \notin SeqRange(C[self])
    THEN C
    ELSE LET C1 == [C EXCEPT ![self] = Remove(@, other)] IN
         IF self \in SeqRange(C1[other]) THEN [C1 EXCEPT ![other] = Remove(@, self)]
                                         ELSE C1

\* Stop.add_neighboring_stop: the sets after the call.  Every stop has the
\* attribute neighboring_stops, so the hasattr branch is never taken.
add_neighboring_stop(N, self, stop) ==
    IF stop \notin N[self] /\ stop # self
    THEN LET N1 == [N EXCEPT ![self] = @ \cup {stop}] IN [N1 EXCEPT ![stop] = @ \cup {self}]
    ELSE N

\* Stop.remove_neighboring_stop: the sets after the call.
remove_neighboring_stop(N, self, stop) ==
    IF stop \in N[self]
    THEN LET N1 == [N EXCEPT ![self] = @ \ {stop}] IN [N1 EXCEPT ![stop] = @ \ {self}]
    ELSE N

graphFrame == <<brokerVars, coreVars, seeded, msgVars>>

\* a.connect_to(b); returns True iff b was not in a's list.
ConnectTo(a, b) ==
    /\ connected_origins' = connect_to(connected_origins, a, b)
    /\ graphLast' = [call |-> "connect_to", self |-> a, other |-> b,
                     result |-> b \notin SeqRange(connected_origins[a])]
    /\ UNCHANGED <<neighboring_stops, graphFrame>>

\* a.disconnect_from(b); returns True iff b was in a's list.
DisconnectFrom(a, b) ==
    /\ connected_origins' = disconnect_from(connected_origins, a, b)
    /\ graphLast' = [call |-> "disconnect_from", self |-> a, other |-> b,
                     result |-> b \in SeqRange(connected_origins[a])]
    /\ UNCHANGED <<neighboring_stops, graphFrame>>

\* a.add_neighboring_stop(b)
AddNeighboringStop(a, b) ==
    /\ neighboring_stops' = add_neighboring_stop(neighboring_stops, a, b)
    /\ graphLast' = [call |-> "add_neighboring_stop", self |-> a, other |-> b,
                     result |-> b \notin neighboring_stops[a] /\ b # a]
    /\ UNCHANGED <<connected_origins, graphFrame>>

\* a.remove_neighboring_stop(b)
RemoveNeighboringStop(a, b) ==
    /\ neighboring_stops' = remove_neighboring_stop(neighboring_stops, a, b)
    /\ graphLast' = [call |-> "remove_neighboring_stop", self |-> a, other |-> b,
                     result |-> b \in neighboring_stops[a]]
    /\ UNCHANGED <<connected_origins, graphFrame>>

\* The nodes as constructed; any call on any pair of nodes, a node itself
\* included.
InitGraph == InitBrokerIdle /\ InitEntitiesIdle

NextGraph ==
    \/ \E a \in Nodes, b \in Nodes : ConnectTo(a, b)
    \/ \E a \in Nodes, b \in Nodes : DisconnectFrom(a, b)
    \/ \E a \in Nodes, b \in Nodes : AddNeighboringStop(a, b)
    \/ \E a \in Nodes, b \in Nodes : RemoveNeighboringStop(a, b)

SpecGraph == InitGraph /\ [][NextGraph]_vars

(***************************************************************************)
(* Specifications.                                                         *)
(***************************************************************************)
\* The broker alone: the adapters have subscribed, the entities stay as built.
InitBroker ==
    /\ subscribers \in SubscriptionTables
    /\ BrokerFresh
    /\ InitEntitiesIdle

\* Any publisher thread publishes a message of any kind for any sender.
Publish ==
    \E t \in PubThreads, k \in Kinds, snd \in Senders, now \in 1..MaxClock :
        PublishPut(t, k, snd, 0, now)

PublishDone == \E t \in PubThreads : PublishReturn(t)

NextBroker ==
    \/ Publish
    \/ PublishDone
    \/ WorkerCheck
    \/ WorkerGet
    \/ WorkerDeliver
    \/ HandlerReturn
    \/ HandlerRaise
    \/ ShutdownBegin
    \/ ShutdownJoin
    \/ ShutdownDrain

SpecBroker == InitBroker /\ [][NextBroker]_vars

(***************************************************************************)
(* The broker from its construction, with subscribers that subscribe and   *)
(* unsubscribe while messages are published and delivered.                 *)
(***************************************************************************)
InitSubs ==
    /\ InitBrokerIdle
    /\ InitEntitiesIdle

\* One publisher thread; the sender and the clock play no part here.
PublishBySender == \E k \in Kinds : PublishPut(1, k, "Bus-1", 0, clock)
PublishBySenderDone == PublishReturn(1)

NextSubs ==
    \/ PublishBySender
    \/ PublishBySenderDone
    \/ WorkerCheck
    \/ WorkerGet
    \/ WorkerDeliver
    \/ HandlerReturn
    \/ \E s \in Subs, mt \in SUBSET Kinds : SubscribeCall(s, mt)
    \/ \E s \in Subs : SubscribeAdd(s)
    \/ \E s \in Subs, mt \in SUBSET Kinds : UnsubscribeCall(s, mt)
    \/ \E s \in Subs : UnsubscribeAllCall(s)
    \/ \E s \in Subs : UnsubscribeRemove(s)

SpecSubs == InitSubs /\ [][NextSubs]_vars

(***************************************************************************)
(* The broker while nobody calls shutdown(), with the scheduling the       *)
(* threads get: the worker thread keeps running and every on_message call  *)
(* ends (by returning or by raising).                                      *)
(***************************************************************************)
NextBrokerRun ==
    \/ Publish
    \/ PublishDone
    \/ WorkerCheck
    \/ WorkerGet
    \/ WorkerDeliver
    \/ HandlerReturn
    \/ HandlerRaise

WorkerStep == WorkerCheck \/ WorkerGet \/ WorkerDeliver
HandlerEnds == HandlerReturn \/ HandlerRaise

SpecBrokerLive ==
    /\ InitBroker
    /\ [][NextBrokerRun]_vars
    /\ WF_vars(WorkerStep)
    /\ WF_vars(HandlerEnds)
    /\ WF_vars(PublishDone)

\* Agent threads of the base simulation.
BusThreadStep(b) ==
    \/ BusAlighting(b)
    \/ BusBoardStart(b)
    \/ BusBoardIter(b)
    \/ BusAddAppend(b)
    \/ BusStopRemove(b)
    \/ BusMove(b)

PassengerThreadStep(p) ==
    \/ PassTryBoard(p)
    \/ PassBoardDone(p)
    \/ PassCheckArrival(p)
    \/ PassAlight(p)
    \/ PassAlightEnd(p)
    \/ PassExit(p)

NextAgents ==
    \/ \E b \in seed_buses : BusAlighting(b)
    \/ \E b \in seed_buses : BusBoardStart(b)
    \/ \E b \in seed_buses : BusBoardIter(b)
    \/ \E b \in seed_buses : BusAddAppend(b)
    \/ \E b \in seed_buses : BusStopRemove(b)
    \/ \E b \in seed_buses : BusMove(b)
    \/ \E p \in seed_passengers : PassTryBoard(p)
    \/ \E p \in seed_passengers : PassBoardDone(p)
    \/ \E p \in seed_passengers : PassCheckArrival(p)
    \/ \E p \in seed_passengers : PassAlight(p)
    \/ \E p \in seed_passengers : PassAlightEnd(p)
    \/ \E p \in seed_passengers : PassExit(p)

Generator ==
    \E kind \in PassengerKinds, p \in Passengers, s \in Stops : GeneratorPublish(kind, p, s)

NextMessages ==
    \/ Generator
    \/ ConsumerGet
    \/ ConsumerDeliver
    \/ ConsumerDone
    \/ AdapterAddAppend

NextSim == NextAgents \/ NextMessages

\* The simulation with the message adapters.
SpecSim == InitSim /\ [][NextSim]_vars

\* The base simulation, every agent thread scheduled again and again.
SpecAgents ==
    /\ InitAgents
    /\ [][NextAgents]_vars
    /\ \A b \in Buses : WF_vars(b \in seed_buses /\ BusThreadStep(b))
    /\ \A p \in Passengers : WF_vars(p \in seed_passengers /\ PassengerThreadStep(p))

\* The base simulation with all its threads and a call of stop_simulation at
\* any moment; every thread and the caller of stop_simulation keep being
\* scheduled.
NextHalt ==
    \/ NextAgents
    \/ \E b \in seed_buses : BusLeavesLoop(b)
    \/ \E p \in seed_passengers : PassLeavesLoop(p)
    \/ \E th \in LoopThreads : LoopTurn(th)
    \/ StopSimulation
    \/ JoinThread
    \/ StopSimulationReturns

SpecHalt ==
    /\ InitAgents
    /\ [][NextHalt]_vars
    /\ \A b \in Buses : WF_vars(b \in seed_buses /\ (BusThreadStep(b) \/ BusLeavesLoop(b)))
    /\ \A p \in Passengers :
          WF_vars(p \in seed_passengers /\ (PassengerThreadStep(p) \/ PassLeavesLoop(p)))
    /\ \A th \in LoopThreads : WF_vars(LoopTurn(th))
    /\ WF_vars(JoinThread \/ StopSimulationReturns)

\* The simulation with the message adapters, and direct calls of
\* Stop.add_passenger and Stop.remove_passenger at any moment.
NextLists ==
    \/ NextSim
    \/ \E s \in Stops, p \in Passengers : CallAddPassenger(s, p)
    \/ \E s \in Stops, p \in Passengers : CallRemovePassenger(s, p)

\* The seed as _create_passengers builds it: every destination is a station.
InitLists ==
    /\ InitBrokerIdle
    /\ Seeded(NPassengers, NSeedBuses, [p \in Passengers |-> Station({route_stops[NStops]})],
              MaxCapacity)
    /\ isinstanceOk \in BOOLEAN
    /\ ThreadsCreated
    /\ nRequests = 0

SpecLists == InitLists /\ [][NextLists]_vars

\* One boarding step of a bus thread, nothing else running: the bus is at
\* any stop of its route with the passengers waiting there, each for any
\* stop or any one-stop station, and _handle_boarding is about to be called.
BoardingDestinations ==
    {Station({s}) : s \in Stops} \cup {StopDestination(s) : s \in Stops}

InitBoarding ==
    /\ InitBrokerIdle
    /\ \E at \in Stops, dests \in [Passengers -> BoardingDestinations],
          capacity \in 1..MaxCapacity :
          SeededAt(at, NPassengers, NSeedBuses, dests, capacity)
    /\ isinstanceOk \in BOOLEAN
    /\ ThreadsCreated
    /\ nRequests = MaxRequests

NextBoarding ==
    \/ \E b \in seed_buses : BusAlighting(b)
    \/ \E b \in seed_buses : BusBoardStart(b)
    \/ \E b \in seed_buses : BusBoardIter(b)
    \/ \E b \in seed_buses : BusAddAppend(b)
    \/ \E b \in seed_buses : BusStopRemove(b)

SpecBoarding == InitBoarding /\ [][NextBoarding]_vars

\* The adapters alone, with messages published by the generator and by the
\* adapters themselves.
NextOnMessage ==
    \/ \E a \in Adapters, kind \in PassengerKinds, p \in Passengers, s \in Stops :
          AdapterPublish(a, kind, p, s)
    \/ Generator
    \/ ConsumerGet
    \/ ConsumerDeliver
    \/ ConsumerDone
    \/ AdapterAddAppend

SpecOnMessage == InitSim /\ [][NextOnMessage]_vars

\* The adapters with the generator's route updates as well.
NextRouteUpdate ==
    \/ \E b \in Buses, r \in Routes : GeneratorRouteUpdate(b, r)
    \/ Generator
    \/ ConsumerGet
    \/ ConsumerDeliver
    \/ ConsumerDone
    \/ AdapterAddAppend

SpecRouteUpdate == InitSim /\ [][NextRouteUpdate]_vars

\* The simulation with its adapters, the generator's route updates, and
\* buses the seed may have left without a stop.
InitKeep ==
    /\ InitBrokerIdle
    /\ \E raw \in Stops \cup {None}, dests \in [Passengers -> Destinations],
          capacity \in 1..MaxCapacity :
          SeededRaw(raw, NPassengers, NSeedBuses, dests, capacity)
    /\ isinstanceOk \in BOOLEAN
    /\ ThreadsCreated
    /\ nRequests = 0

NextKeep ==
    \/ \E b \in Buses, r \in Routes : GeneratorRouteUpdate(b, r)
    \/ NextAgents
    \/ ConsumerGet
    \/ ConsumerDeliver
    \/ ConsumerDone

SpecKeep == InitKeep /\ [][NextKeep]_vars

\* Every bus of the line at the same stop, as _initialize_buses leaves them,
\* each with its thread and its adapter; the boarding steps and the
\* adapters' handlers, no bus moving.
InitTogether ==
    /\ InitBrokerIdle
    /\ \E dests \in [Passengers -> Destinations], capacity \in 1..MaxCapacity :
          Seeded(NPassengers, NBuses, dests, capacity)
    /\ isinstanceOk \in BOOLEAN
    /\ ThreadsCreated
    /\ nRequests = 0

NextTogether == NextBoarding \/ NextMessages

SpecTogether == InitTogether /\ [][NextTogether]_vars

\* The agent threads over the same seeds: passengers bound for any stop or
\* station, riding from any stop of the route.
SpecRide == InitBoarding /\ [][NextAgents]_vars

\* A stop called directly.
InitStop == InitBrokerIdle /\ InitEntitiesIdle
NextStop == \E s \in Stops, b \in Buses : CallBusArrival(s, b) \/ CallBusDeparture(s, b)
SpecStop == InitStop /\ [][NextStop]_vars

(***************************************************************************)
(* Properties of the broker.                                               *)
(***************************************************************************)
DeliveredTo(s, n) == IndexOfMsg(delivered[s], n) > 0

DeliveredBefore(s, n1, n2) ==
    /\ DeliveredTo(s, n1)
    /\ DeliveredTo(s, n2) => IndexOfMsg(delivered[s], n1) < IndexOfMsg(delivered[s], n2)

SubscribedToBoth(s, m1, m2) ==
    s \in subscribers[m1.type] /\ s \in subscribers[m2.type]

\* C2 as stated: if publish(m1) returned before publish(m2) returned, every
\* subscriber of both kinds that has been invoked with m2 was invoked with m1
\* before.
C2_CompletionOrder ==
    \A s \in Subs : \A i, j \in 1..Len(completed) :
        (i < j /\ SubscribedToBoth(s, completed[i], completed[j])
               /\ DeliveredTo(s, completed[j].n))
            => DeliveredBefore(s, completed[i].n, completed[j].n)

\* C2 (amended): if publish(m1) had returned before publish(m2) put m2 in the
\* queue (in particular before publish(m2) was called, as for two publishes
\* by one thread), every subscriber of both kinds that has been invoked with
\* m2 was invoked with m1 before.
C2_PublishOrder ==
    \A s \in Subs : \A m2 \in SeqRange(delivered[s]) : \A m1 \in hb[m2.n] :
        SubscribedToBoth(s, m1, m2) => DeliveredBefore(s, m1.n, m2.n)

\* Two messages published one after the other by different senders, both
\* delivered to a subscriber of both kinds.
C2_Witness ==
    \E s \in Subs : \E m2 \in SeqRange(delivered[s]) : \E m1 \in hb[m2.n] :
        /\ SubscribedToBoth(s, m1, m2)
        /\ m1.sender_id # m2.sender_id
        /\ DeliveredTo(s, m1.n)

\* C3 as stated: no subscriber's on_message is invoked twice with the same
\* message id.
C3_AtMostOncePerId ==
    \A s \in Subs : \A i, j \in 1..Len(delivered[s]) :
        i < j => MessageId(delivered[s][i]) # MessageId(delivered[s][j])

\* C4: an exception raised by one subscriber's on_message does not end the
\* fan-out nor the consumer loop: the loop stays on the same message, at the
\* end of the for loop every subscriber of the kind has been invoked with that
\* message, and the thread ends only once the stop event is set.
C4_RaiseIsolated ==
    /\ raisedIn # {} => /\ workerPc \in {"fanout", "handler"}
                        /\ workerMsg # NoMsg
                        /\ raisedIn \subseteq subscribers[workerMsg.type]
    /\ (workerPc = "fanout" /\ workerTodo = {}) =>
            \A s \in subscribers[workerMsg.type] :
                /\ delivered[s] # <<>>
                /\ delivered[s][Len(delivered[s])] = workerMsg
    /\ workerPc = "done" => broker_stop_event

\* A subscriber's on_message is running after another subscriber's on_message
\* raised for the same message.
C4_Witness ==
    /\ workerPc = "handler"
    /\ raisedIn # {}
    /\ workerCur \notin raisedIn
    /\ message_queue # <<>>

NoRepeat(s) ==
    \A i, j \in 1..Len(delivered[s]) : i < j => delivered[s][i].n # delivered[s][j].n

OnlyPublished(s) ==
    \A i \in 1..Len(delivered[s]) :
        /\ delivered[s][i] \in SeqRange(published)
        /\ s \in subscribers[delivered[s][i].type]

\* Messages of one sender arrive in the order they were put in the queue
\* (message numbers follow that order).
PerSenderOrder(s) ==
    \A i, j \in 1..Len(delivered[s]) :
        (i < j /\ delivered[s][i].sender_id = delivered[s][j].sender_id)
            => delivered[s][i].n < delivered[s][j].n

C6_ShutdownStopsDelivery ==
    [][ /\ shutdownPc = "returned" => delivered' = delivered
        /\ \A s \in Subs :
             delivered'[s] # delivered[s]
                => delivered'[s][Len(delivered'[s])].n \notin queuedAtShutdown ]_vars

(***************************************************************************)
(* Properties of the entity model and of the agents.                       *)
(***************************************************************************)
\* C1 as stated: no bus ever holds more passengers than its capacity,
\* whatever the interleaving of the bus thread's boarding and of the bus
\* adapter's boarding-request handler.
C1_CapacityRespected ==
    \A b \in Buses : Len(buses[b].passenger_list) <= buses[b].capacity

CountStatus(states) ==
    Cardinality({p \in seed_passengers : passengers[p].status \in states})

SettledStates == {"waiting", "in_bus", "arrived"}
AllStates == {"waiting", "boarding", "in_bus", "alighting", "arrived"}

\* C7 as stated: whenever the passengers are sampled, every passenger is
\* WAITING, IN_BUS or ARRIVED, so the three counts add up to the number of
\* passengers created.
C7_ThreeStatesConserve ==
    CountStatus(SettledStates) = Cardinality(seed_passengers)

\* C7 (amended): whenever the passengers are sampled, every passenger is in
\* one of the five states, so the five counts add up to the number of
\* passengers created; a passenger is BOARDING only inside its board_bus call
\* and ALIGHTING only inside its alight_bus call, so the three counts add up
\* whenever no such call is in progress.
C7_FiveStatesConserve ==
    /\ CountStatus(AllStates) = Cardinality(seed_passengers)
    /\ \A p \in seed_passengers :
          /\ passengers[p].status = "boarding" => passPc[p] = "boarding"
          /\ passengers[p].status = "alighting" => passPc[p] = "alighting"
    /\ (\A p \in seed_passengers : passPc[p] \notin {"boarding", "alighting"})
          => CountStatus(SettledStates) = Cardinality(seed_passengers)

\* A sample taken while one passenger is inside alight_bus and another one
\* is settled.
C7_Witness ==
    /\ \E p \in seed_passengers : passengers[p].status = "alighting"
    /\ \E p \in seed_passengers : passengers[p].status \in SettledStates
    /\ CountStatus(SettledStates) < Cardinality(seed_passengers)

LifecycleTransitions ==
    { <<"waiting", "boarding">>, <<"boarding", "in_bus">>, <<"in_bus", "alighting">>,
      <<"alighting", "waiting">>, <<"alighting", "arrived">> }

\* C8 as stated: every change of a passenger's status is one of
\* WAITING->BOARDING, BOARDING->IN_BUS, IN_BUS->ALIGHTING, ALIGHTING->WAITING,
\* ALIGHTING->ARRIVED.
C8_LifecycleOnly ==
    [][\A p \in Passengers :
          passengers'[p].status # passengers[p].status
              => <<passengers[p].status, passengers'[p].status>> \in LifecycleTransitions]_vars

CallsOn(s) == SelectSeq(stopLog, LAMBDA c : c.stop = s)
Arrival(s, b) == [op |-> "bus_arrival", stop |-> s, bus |-> b]
Departure(s, b) == [op |-> "bus_departure", stop |-> s, bus |-> b]

\* C9: on a stop that is unoccupied with an empty queue, bus_arrival(X)
\* admits X and sets is_occupied; then bus_arrival(Y) queues Y and does not
\* admit it; then bus_departure(X) leaves Y the only admitted bus, the queue
\* without Y and is_occupied true.
C9_ScenarioB ==
    \A s \in Stops : \A X, Y \in Buses :
        X # Y =>
          /\ CallsOn(s) = <<Arrival(s, X)>> =>
                /\ stops[s].current_buses = {X}
                /\ stops[s].is_occupied
                /\ stops[s].bus_queue = <<>>
          /\ CallsOn(s) = <<Arrival(s, X), Arrival(s, Y)>> =>
                /\ stops[s].current_buses = {X}
                /\ stops[s].is_occupied
                /\ stops[s].bus_queue = <<Y>>
          /\ CallsOn(s) = <<Arrival(s, X), Arrival(s, Y), Departure(s, X)>> =>
                /\ stops[s].current_buses = {Y}
                /\ stops[s].is_occupied
                /\ stops[s].bus_queue = <<>>

\* The three calls of the scenario have been made on a stop.
C9_Witness ==
    \E s \in Stops : \E X, Y \in Buses :
        /\ X # Y
        /\ CallsOn(s) = <<Arrival(s, X), Arrival(s, Y), Departure(s, X)>>

\* Scenario A: route [A, B], one bus of capacity 2 at A, one passenger
\* waiting at A whose destination is the stop B.
ScenarioA ==
    /\ NStops = 2
    /\ seed_buses = {1}
    /\ seed_passengers = {1}
    /\ buses[1] = NewBus(2, route_stops[1])
    /\ passengers[1] = NewPassenger(StopDestination(route_stops[2]), route_stops[1])
    /\ stops[route_stops[1]].waiting_passengers = <<1>>

\* C10 as stated: from scenario A, with every agent running, the passenger
\* gets IN_BUS, and later, with the bus at B, the passenger is ARRIVED, absent
\* from A's waiting list, and the bus's passenger list is empty.
C10_ScenarioA ==
    ScenarioA =>
        /\ <>(passengers[1].status = "in_bus")
        /\ <>(/\ buses[1].current_stop = route_stops[2]
              /\ passengers[1].status = "arrived"
              /\ 1 \notin SeqRange(stops[route_stops[1]].waiting_passengers)
              /\ buses[1].passenger_list = <<>>)


\* C11: in every reachable state of every stop, under any interleaving of
\* bus_arrival and bus_departure calls of the bus threads and of the stop
\* thread's queue drain, is_occupied is true exactly when current_buses is
\* not empty.
\* The property is stated for the states in which no thread is inside a call
\* of bus_arrival, bus_departure or _manage_bus_queue on the stop.
NoCallInProgress(s) ==
    /\ stPc[s] \in {"idle", "dead"}
    /\ \A b \in Buses : buses[b].current_stop = s => mvPc[b] \in {"idle", "leave"}

C11_OccupiedIffAdmitted ==
    \A s \in Stops :
        NoCallInProgress(s) => (stops[s].is_occupied <=> stops[s].current_buses # {})

\* C18: an error raised during one loop cycle never ends an agent; in
\* particular the stop thread keeps running under every interleaving of its
\* queue drain with the bus_arrival and bus_departure calls of the bus
\* threads on the same stop.
C18_StopAgentKeepsRunning ==
    \A s \in Stops : stPc[s] # "dead"

\* C12: every passenger whose status is not ARRIVED has exactly one of
\* current_stop and current_bus set; boarding clears current_stop and
\* alighting clears current_bus.  Stated for the states in which every bus
\* thread is between two passenger exchanges and the passenger's own thread
\* is between two cycles.
BetweenExchanges ==
    \A b \in seed_buses : busPc[b] \in {"exchange", "move"}

C12_ExactlyOneLocation ==
    \A p \in seed_passengers :
        (/\ BetweenExchanges
         /\ passPc[p] = "loop"
         /\ passengers[p].status # "arrived") =>
            ((passengers[p].current_stop # None) # (passengers[p].current_bus # None))

\* Number of add() calls made for subscriber s on kind k since its last removal.
Multiplicity(k, s) == Cardinality({i \in 1..Len(subLog[k]) : subLog[k][i] = s})

\* Number of on_message calls subscriber s received for message number n.
TimesDelivered(s, n) == Cardinality({i \in 1..Len(delivered[s]) : delivered[s][i].n = n})

\* A turn of subscribe's loop, made for subscriber s on kind k.
SubscribeTurn(s, k) ==
    /\ subCall[s].op = "subscribe"
    /\ k \in subCall[s].todo
    /\ subCall'[s] # subCall[s]
    /\ (subCall'[s].op = "subscribe" => k \notin subCall'[s].todo)

C13_CountedOnce ==
    /\ \A k \in Kinds :
        get_stats.subscribers_count[k]
            = Cardinality({s \in Subs : Multiplicity(k, s) >= 1})
    /\ get_stats.total_subscribers
            = Cardinality({x \in Kinds \X Subs : Multiplicity(x[1], x[2]) >= 1})

C13_InvokedOnce ==
    (workerPc \in {"fanout", "handler"} /\ ~workerIter.dirty
        /\ Cardinality(subscribers[workerMsg.type]) = workerIter.len) =>
        \A s \in subscribers[workerMsg.type] :
            TimesDelivered(s, workerMsg.n)
                = IF s \in workerTodo THEN 0 ELSE 1

\* C13: subscribe is idempotent: a turn of subscribe for a subscriber that is
\* already subscribed to the kind leaves the subscriber table as it was; a
\* subscriber subscribed any number of times to a kind is counted once for
\* it by get_stats, and the for loop over an unchanged set invokes its
\* handler exactly once for the message.
C13_SubscribeIdempotent ==
    /\ [](C13_CountedOnce /\ C13_InvokedOnce)
    /\ [][\A s \in Subs, k \in Kinds :
            (SubscribeTurn(s, k) /\ s \in subscribers[k]) => subscribers' = subscribers]_vars

C13_Witness ==
    \E s \in Subs, k \in Kinds :
        /\ Multiplicity(k, s) >= 2
        /\ get_stats.subscribers_count[k] = 1
        /\ workerPc = "fanout"
        /\ workerMsg.type = k
        /\ workerTodo = {}
        /\ TimesDelivered(s, workerMsg.n) = 1

\* A turn of unsubscribe's loop, made for subscriber s on kind k.
UnsubscribeTurn(s, k) ==
    /\ subCall[s].op \in {"unsubscribe", "unsubscribe_all"}
    /\ k \in subCall[s].todo
    /\ subCall'[s] # subCall[s]
    /\ (subCall'[s].op # "none" => k \notin subCall'[s].todo)

\* An unsubscribe call of subscriber s returns.
UnsubscribeReturns(s) ==
    /\ subCall[s].op \in {"unsubscribe", "unsubscribe_all"}
    /\ subCall'[s].op = "none"

\* No message of kind k taken out of the queue after unsubscribe(s, [.. k ..])
\* returned has been handed to s.
C14_NotInvokedAfter ==
    \A s \in Subs, k \in Kinds :
        unsubDone[s][k].on =>
            \A i \in 1..Len(delivered[s]) :
                delivered[s][i].type = k => delivered[s][i].n \in unsubDone[s][k].seen

C14_Frame ==
    \A s \in Subs, k \in Kinds :
        UnsubscribeTurn(s, k) =>
            /\ \A s2 \in Subs, k2 \in Kinds :
                  <<s2, k2>> # <<s, k>> => (s2 \in subscribers'[k2] <=> s2 \in subscribers[k2])
            /\ s \notin subscribers[k] => subscribers' = subscribers

C14_Removed ==
    \A s \in Subs :
        UnsubscribeReturns(s) =>
            /\ \A k \in subCall[s].kinds : s \notin subscribers'[k]
            /\ subCall[s].op = "unsubscribe_all" => \A k \in Kinds : s \notin subscribers'[k]

\* C14: after unsubscribe(subscriber, kinds) has returned the subscriber's
\* handler is not invoked for any message of those kinds dequeued afterwards;
\* its subscriptions to other kinds (and everybody else's) are unchanged;
\* unsubscribe without kinds removes the subscriber from every kind;
\* unsubscribing a subscriber that is not subscribed changes nothing.
C14_UnsubscribeEffect ==
    /\ []C14_NotInvokedAfter
    /\ [][C14_Frame /\ C14_Removed]_vars

C14_Witness ==
    \E s \in Subs, k \in Kinds, n \in MsgNums :
        /\ unsubDone[s][k].on
        /\ n \in Dequeued \ unsubDone[s][k].seen
        /\ published[n].type = k
        /\ workerPc = "check"
        /\ TimesDelivered(s, n) = 0
        /\ \E m \in unsubDone[s][k].seen : published[m].type = k /\ TimesDelivered(s, m) = 1
        /\ \E k2 \in Kinds \ {k} : s \in subscribers[k2]

\* Position of subscriber s in the order of subscription to kind k (0: never).
SubscribedAt(k, s) == IndexOf(subLog[k], s)

\* C15: for each dequeued message the delivery loop invokes the handlers of
\* the current subscribers of the kind in the order in which they subscribed
\* to it: the subscriber whose handler runs subscribed before every
\* subscriber the loop has still to visit.
C15_SubscriptionOrder ==
    (workerPc = "handler" /\ ~workerIter.dirty) =>
        \A t \in workerTodo :
            SubscribedAt(workerMsg.type, workerCur) < SubscribedAt(workerMsg.type, t)

\* C16: every construction of MessageBroker, first constructions running
\* concurrently on several threads included, yields the same instance with
\* exactly one subscriber table, one message queue and one consumer loop
\* ever started.
C16_OneBroker ==
    /\ nInstances <= 1
    /\ nTables <= 1
    /\ nQueues <= 1
    /\ nWorkers <= 1

\* C17: from every reachable state of a running simulation, after
\* stop_simulation has set the shared event every thread (bus, passenger,
\* stop, station, intersection) eventually leaves its loop, so every join
\* completes and stop_simulation returns.
C17_StopSimulationReturns ==
    [](sim_stop_event =>
          <>(/\ simPc = "returned"
             /\ \A i \in 1..Len(Threads) : Ended(Threads[i])))

C17_Witness ==
    /\ simPc = "returned"
    /\ joined = Len(Threads)
    /\ \E p \in seed_passengers : passengers[p].status = "in_bus"
    /\ \E b \in seed_buses : buses[b].current_stop # route_stops[1]

LeavesLoopHead(p) == passPc[p] = "loop" /\ passPc'[p] # "loop"

C20_StaysArrived ==
    \A p \in seed_passengers :
        passengers[p].status = "arrived" => passengers'[p].status = "arrived"

C20_ExitsWhenObserved ==
    \A p \in seed_passengers :
        (passengers[p].status = "arrived" /\ LeavesLoopHead(p)) => passPc'[p] = "done"

\* C20: ARRIVED is terminal: once a passenger's status is ARRIVED no step of
\* any thread or adapter changes it, and the cycle of the passenger's thread
\* that observes ARRIVED leaves the loop.
C20_ArrivedIsTerminal == [][C20_StaysArrived /\ C20_ExitsWhenObserved]_vars

C20_Witness ==
    \E p \in seed_passengers :
        /\ passengers[p].status = "arrived"
        /\ passPc[p] = "done"
        /\ adPc = "fanout"
        /\ adTodo = {}
        /\ adMsg.kind = "passenger_alighting"
        /\ adMsg.passenger_id = p
        /\ adMsg.stop_id = passengers[p].current_stop

(***************************************************************************)
(* Properties of the graph of origins.                                     *)
(***************************************************************************)
\* C21: after any sequence of connect_to / disconnect_from calls, a is in
\* b's connected origins iff b is in a's; after any sequence of
\* add_neighboring_stop / remove_neighboring_stop calls, a is in b's
\* neighbouring stops iff b is in a's.
C21_ConnectionSymmetric ==
    \A a \in Nodes, b \in Nodes :
        /\ (a \in SeqRange(connected_origins[b])) <=> (b \in SeqRange(connected_origins[a]))
        /\ (a \in neighboring_stops[b]) <=> (b \in neighboring_stops[a])

\* A disconnect_from call has just removed a connection while another
\* connection and a pair of neighbouring stops remain.
C21_Witness ==
    /\ graphLast.call = "disconnect_from" /\ graphLast.result
    /\ graphLast.self # graphLast.other
    /\ \E a \in Nodes, b \in Nodes :
          a # b /\ b \in SeqRange(connected_origins[a]) /\ a \in SeqRange(connected_origins[b])
    /\ \E a \in Nodes, b \in Nodes : a # b /\ b \in neighboring_stops[a]

AdvanceReturns(b) == mvPc[b] # "idle" /\ mvPc'[b] = "idle"

\* The stop the advance of bus b started from.
AdvancedFrom(b) == mvLog[b][1].stop

C25_NotifiedAroundMove ==
    [][\A b \in seed_buses :
          buses'[b].current_stop # buses[b].current_stop =>
              /\ mvLog[b] = <<Did("bus_departure", buses[b].current_stop)>>
              /\ mvLog'[b] = <<Did("bus_departure", buses[b].current_stop),
                               Did("current_stop", buses'[b].current_stop),
                               Did("bus_arrival", buses'[b].current_stop)>>]_vars

\* A bus has advanced from the last stop of the route to the first and has
\* been admitted there; the stop it left has admitted the bus that waited.
C25_Witness ==
    \E b \in seed_buses :
        /\ mvPc[b] = "idle"
        /\ Len(mvLog[b]) = 3
        /\ mvLog[b][1].stop = route_stops[NStops]
        /\ buses[b].current_stop = route_stops[1]
        /\ b \in stops[route_stops[1]].current_buses
        /\ stops[route_stops[NStops]].current_buses # {}

\* C26: when a bus thread has advanced its bus to a stop of the
\* intersection and the line has a route that continues from the
\* intersection, that route is the bus's active route.
C26_RouteSwitchedAtIntersection ==
    \A b \in seed_buses :
        (/\ mvPc[b] = "idle"
         /\ Len(mvLog[b]) = 3
         /\ buses[b].current_stop \in intersection_stop_list
         /\ find_next_route(intersection_stop_list) # None)
            => buses[b].current_route = find_next_route(intersection_stop_list)

(***************************************************************************)
(* Properties of boarding and alighting.                                   *)
(***************************************************************************)
\* The stops of the active route of a bus at or after the bus's stop.
ForwardStops(bus) ==
    LET route == route_stop_list(bus.current_route)
    IN {route[j] : j \in IndexOf(route, bus.current_stop)..Len(route)}

\* Eligibility as the specification states it for boarding by the bus.
EligibleForBus(pa, bus) ==
    \/ pa.destination.kind = "stop" /\ pa.destination.stop_id \in ForwardStops(bus)
    \/ pa.destination.kind = "station" /\ pa.destination.stop_list \cap ForwardStops(bus) # {}

MinOf(a, b) == IF a <= b THEN a ELSE b

\* The passengers one boarding step must take, given the stop and the bus
\* as they were before it.
FirstEligible(stop, bus) ==
    LET eligible == SelectSeq(stop.waiting_passengers,
                              LAMBDA p : EligibleForBus(passengers[p], bus))
    IN SubSeq(eligible, 1, MinOf(Len(eligible), bus.capacity - Len(bus.passenger_list)))

\* The boarding step of bus b has ended.
BoardingEnded(b) == busPc[b] = "move"

\* C27: after one boarding step run alone, the bus has taken exactly the
\* first k eligible passengers of the waiting list, in list order, k being
\* the smaller of the number of eligible passengers and the free places;
\* they are gone from the stop's waiting and present lists and nothing else
\* has moved.
C27_BoardsFirstEligible ==
    \A b \in seed_buses :
        BoardingEnded(b) =>
            LET at == seeded.buses[b].current_stop
                boarded == FirstEligible(seeded.stops[at], seeded.buses[b])
                stays(p) == p \notin SeqRange(boarded)
            IN /\ buses[b].passenger_list = seeded.buses[b].passenger_list \o boarded
               /\ stops[at].waiting_passengers =
                      SelectSeq(seeded.stops[at].waiting_passengers, stays)
               /\ stops[at].passenger_list =
                      SelectSeq(seeded.stops[at].passenger_list, stays)
               /\ \A s \in Stops \ {at} : stops[s] = seeded.stops[s]

\* The active route of the bus contains the destination stop of the
\* passenger or, for a station, one of the station's stops.
RouteReachesDestination(pa, bus) ==
    LET onRoute == SeqRange(route_stop_list(bus.current_route))
    IN \/ pa.destination.kind = "stop" /\ pa.destination.stop_id \in onRoute
       \/ pa.destination.kind = "station" /\ pa.destination.stop_list \cap onRoute # {}

\* Passenger p is waiting, its agent is about to run a cycle, and bus b is
\* among the buses present at its stop.
AgentSeesBus(p, b) ==
    /\ passPc[p] = "loop"
    /\ passengers[p].status = "waiting"
    /\ passengers[p].current_stop # None
    /\ b \in stops[passengers[p].current_stop].current_buses

\* C28: the agent of a waiting passenger takes a bus present at its stop as
\* eligible exactly when the bus's active route contains the destination
\* stop or a stop of the destination station.
C28_EligibleIffRouteReaches ==
    \A p \in seed_passengers, b \in seed_buses :
        AgentSeesBus(p, b) =>
            (_can_board_bus(passengers[p], buses[b])
                <=> RouteReachesDestination(passengers[p], buses[b]))

\* The stop is the destination of the passenger or a stop of its
\* destination station.
AtDestination(pa, stop) ==
    \/ pa.destination.kind = "stop" /\ pa.destination.stop_id = stop
    \/ pa.destination.kind = "station" /\ stop \in pa.destination.stop_list

\* The stop is a stop of the intersection, and a route other than the
\* bus's active route starts at the intersection and reaches the destination.
TransferAt(pa, bus, stop) ==
    /\ stop \in intersection_stop_list
    /\ \E r \in Routes \ {bus.current_route} :
          /\ route_origin_start(r) = "intersection"
          /\ \E s \in SeqRange(route_stop_list(r)) : AtDestination(pa, s)

\* The stop is the last stop of the bus's active route.
LastStopOfRoute(bus, stop) ==
    stop = route_stop_list(bus.current_route)[Len(route_stop_list(bus.current_route))]

\* Passenger p is in a bus and its agent is about to run a cycle.
AgentRidesBus(p) ==
    /\ passPc[p] = "loop"
    /\ ~sim_stop_event
    /\ passengers[p].status = "in_bus"
    /\ passengers[p].current_bus # None

\* C29: a passenger in a bus whose agent runs a cycle alights at the bus's
\* stop when the stop is its destination, a stop of its destination station,
\* the last stop of the bus's route or a transfer stop; once it has
\* alighted its status is "arrived" at its destination and "waiting"
\* elsewhere.
C29_AlightsAndArrives ==
    [][\A p \in seed_passengers :
          /\ AgentRidesBus(p) =>
                LET bus == buses[passengers[p].current_bus]
                    stop == bus.current_stop
                IN (\/ AtDestination(passengers[p], stop)
                    \/ LastStopOfRoute(bus, stop)
                    \/ TransferAt(passengers[p], bus, stop))
                       => ENABLED PassCheckArrival(p)
          /\ (passPc[p] = "alighted" /\ passPc'[p] = "loop") =>
                passengers'[p].status =
                    IF AtDestination(passengers'[p], passengers'[p].current_stop)
                    THEN "arrived" ELSE "waiting"]_vars

(***************************************************************************)
(* Properties of the adapters' on_message.                                 *)
(***************************************************************************)
\* The consumer's step runs on_message of adapter a.
Delivers(a) == adPc = "fanout" /\ a \in adTodo /\ a \notin adTodo'

\* C30: on_message of a bus adapter or of a stop adapter, called with a
\* message whose sender id is the adapter's own id, changes no bus, no stop
\* and no passenger, publishes nothing and starts no handler, whatever the
\* kind and the payload of the message.
C30_OwnMessagesIgnored ==
    [][\A a \in Adapters :
          (Delivers(a) /\ adMsg.sender = AdapterId(a)) =>
              /\ buses' = buses
              /\ stops' = stops
              /\ passengers' = passengers
              /\ simQueue' = simQueue
              /\ adPc' = "fanout"
              /\ adBus' = adBus]_vars

\* A stop adapter has been handed its own boarding message for a passenger
\* that waits at its stop, which the handler would have removed.
C30_Witness ==
    \E s \in Stops :
        /\ adPc = "fanout"
        /\ adMsg.sender = AdapterId(<<"stop", s>>)
        /\ <<"stop", s>> \notin adTodo
        /\ adMsg.kind = "passenger_boarding"
        /\ adMsg.stop_id = s
        /\ adMsg.passenger_id \in SeqRange(stops[s].waiting_passengers)

\* C31: when a bus adapter is handed a ROUTE_UPDATE message of another
\* sender that names its bus and a route of the network, then after the
\* handler the bus's active route is that route and the bus's stop is one
\* of that route's stops.
C31_RouteUpdateApplied ==
    [][\A b \in seed_buses :
          (/\ Delivers(<<"bus", b>>)
           /\ adMsg.kind = "route_update"
           /\ adMsg.sender # AdapterId(<<"bus", b>>)
           /\ adMsg.bus_id = b
           /\ adMsg.route_id \in Routes) =>
              /\ buses'[b].current_route = adMsg.route_id
              /\ buses'[b].current_stop \in SeqRange(route_stop_list(adMsg.route_id))]_vars

(***************************************************************************)
(* Properties of the registration of buses at stops.                       *)
(***************************************************************************)
\* Bus b is admitted at stop s or waits in its queue.
RegisteredAt(b, s) ==
    b \in stops[s].current_buses \/ b \in SeqRange(stops[s].bus_queue)

\* C32: a bus that is in a stop's admitted set or in its wait queue has that
\* stop as its current stop; so a bus that has advanced is never admitted at
\* the stop it left, and no bus is registered at two stops at once.
C32_RegisteredWhereItIs ==
    \A b \in seed_buses, s \in Stops :
        RegisteredAt(b, s) => buses[b].current_stop = s

(***************************************************************************)
(* Properties of the passenger lists.                                      *)
(***************************************************************************)
\* The places passenger p takes in the buses' passenger lists.
SeatsOf(p) ==
    {<<b, i>> \in Buses \X (1..NPassengers * (NBuses + 1)) :
        i <= Len(buses[b].passenger_list) /\ buses[b].passenger_list[i] = p}

\* C33: every passenger is in the passenger list of at most one bus and at
\* most once in it, whatever the interleaving of the bus agents at one stop
\* and of the bus adapters' boarding handlers.
C33_OneSeatPerPassenger ==
    \A p \in Passengers : Cardinality(SeatsOf(p)) <= 1

\* C34: passenger p is in bus b's passenger list exactly when p's status is
\* "in_bus" and p's current bus is b; a passenger whose status is "in_bus"
\* or "arrived" is in no stop's waiting list.
C34_ListsAgreeWithStatus ==
    /\ \A p \in seed_passengers, b \in seed_buses :
          p \in SeqRange(buses[b].passenger_list)
              <=> (passengers[p].status = "in_bus" /\ passengers[p].current_bus = b)
    /\ \A p \in seed_passengers, s \in Stops :
          passengers[p].status \in {"in_bus", "arrived"}
              => p \notin SeqRange(stops[s].waiting_passengers)

(***************************************************************************)
(* Properties of the journey of a passenger.                               *)
(***************************************************************************)
\* Passenger p waits at a stop of the bus route and its destination, or a
\* stop of its destination station, comes later on the route.
WaitsBeforeDestination(p) ==
    /\ p \in seed_passengers
    /\ passengers[p].status = "waiting"
    /\ passengers[p].current_stop # None
    /\ passengers[p].current_stop \in SeqRange(route_stops)
    /\ p \in SeqRange(stops[passengers[p].current_stop].waiting_passengers)
    /\ \E s \in SeqRange(route_stops) :
          /\ RouteIndex(passengers[p].current_stop) < RouteIndex(s)
          /\ AtDestination(passengers[p], s)

\* C35: with every agent scheduled again and again and no cancellation, a
\* passenger that waits at a stop of the route the bus goes round, with its
\* destination later on that route, eventually has status "arrived".
C35_WaitingPassengerArrives ==
    \A p \in Passengers :
        WaitsBeforeDestination(p) ~> (passengers[p].status = "arrived")

\* C36: a bus agent takes passengers in or lets them off at a stop only
\* while its bus is in that stop's admitted set; a bus that waits in the
\* queue or was never announced to the stop exchanges no passengers there.
C36_ExchangeOnlyWhenAdmitted ==
    [][\A b \in seed_buses :
          buses'[b].passenger_list # buses[b].passenger_list
              => b \in stops[buses[b].current_stop].current_buses]_vars

\* C37: once the bus thread exists, the current stop of its bus is a stop
\* of the bus's active route, in every state: at the start, after every
\* advance and after every route update handed to the bus's adapter.
C37_StopOnActiveRoute ==
    \A b \in seed_buses :
        buses[b].current_stop \in SeqRange(route_stop_list(buses[b].current_route))

\* A bus that has advanced along its route and whose adapter has been handed
\* a route update for it.
C37_Witness ==
    \E b \in seed_buses :
        /\ buses[b].current_stop = route_stops[NStops]
        /\ adPc = "fanout"
        /\ adMsg.kind = "route_update"
        /\ adMsg.bus_id = b
        /\ adMsg.route_id \in Routes
        /\ <<"bus", b>> \notin adTodo

(***************************************************************************)
(* The adapters' re-publications.  The consumer thread is the only one     *)
(* that runs the handlers; it is scheduled again and again while the       *)
(* broker is not shut down.                                                *)
(***************************************************************************)
ConsumerStep == ConsumerGet \/ ConsumerDeliver \/ ConsumerDone \/ AdapterAddAppend

NextDrain ==
    \/ \E b \in Buses, r \in Routes : GeneratorRouteUpdate(b, r)
    \/ \E kind \in NoticeKinds, b \in Buses \cup {None}, s \in Stops :
          GeneratorNotice(kind, b, s)
    \/ NextBoarding
    \/ NextMessages

\* Two buses of the line at the same stop and one passenger waiting there.
InitDrain ==
    /\ InitBrokerIdle
    /\ \E dests \in [Passengers -> Destinations], capacity \in 1..MaxCapacity :
          Seeded(1, NBuses, dests, capacity)
    /\ isinstanceOk \in BOOLEAN
    /\ ThreadsCreated
    /\ nRequests = 0

SpecDrain == InitDrain /\ [][NextDrain]_vars /\ WF_vars(ConsumerStep)

GeneratorsStopped == nRequests = MaxRequests
BrokerDrained == simQueue = <<>> /\ adPc = "idle"

\* C38: once the generator has published its last message, the messages the
\* adapters' handlers publish in their turn come to an end: from some moment
\* on the broker's queue is empty and the consumer idle, for good.
C38_DerivedMessagesEnd == [](GeneratorsStopped => <>[]BrokerDrained)

\* The generator has stopped, a passenger message published by one bus adapter
\* is being delivered, and the only message in the queue is one the other bus adapter
\* has published.
C38_Witness ==
    /\ GeneratorsStopped
    /\ adPc = "fanout"
    /\ adMsg.kind \in PassengerKinds
    /\ adMsg.sender \in Buses
    /\ Len(simQueue) = 1
    /\ simQueue[1].sender \in Buses \ {adMsg.sender}

(***************************************************************************)
(* MessageSimulationManager.stop_simulation and the message generators.    *)
(* The manager has a stop event of its own, created in __init__; the       *)
(* generators' loops test that event.  stop_simulation publishes an alert, *)
(* calls the base simulation's stop_simulation, which sets the base        *)
(* simulation's event and joins its threads, and shuts the broker down.    *)
(***************************************************************************)
\* One turn of `while not self.stop_event.is_set():` in generate_messages:
\* the loop ends, or the generator publishes and sleeps.
GeneratorTurn(g) ==
    /\ genPc[g] = "head"
    /\ IF msg_stop_event
       THEN /\ genPc' = [genPc EXCEPT ![g] = "ended"]
            /\ UNCHANGED <<brokerVars, coreVars, graphVars, seeded, msg_stop_event, msgPc>>
       ELSE \E p \in Passengers, s \in Stops : GeneratorPublish("passenger_alighting", p, s)

\* stop_simulation: publish_system_alert, a message no adapter subscribes to.
MsgStopSimulation ==
    /\ msgPc = "running"
    /\ msgPc' = "base"
    /\ UNCHANGED <<brokerVars, coreVars, graphVars, seeded, msg_stop_event, genPc>>

\* stop_simulation: self.base_simulation.stop_simulation()
MsgStopBase ==
    /\ msgPc = "base"
    /\ StopSimulation \/ JoinThread \/ StopSimulationReturns

\* stop_simulation: self.message_broker.shutdown(), and the return.
MsgStopReturns ==
    /\ msgPc = "base"
    /\ simPc = "returned"
    /\ msgPc' = "returned"
    /\ UNCHANGED <<brokerVars, coreVars, graphVars, seeded, msg_stop_event, genPc>>

NextMsgHalt ==
    \/ NextAgents
    \/ \E b \in seed_buses : BusLeavesLoop(b)
    \/ \E p \in seed_passengers : PassLeavesLoop(p)
    \/ \E th \in LoopThreads : LoopTurn(th)
    \/ \E g \in Generators : GeneratorTurn(g)
    \/ MsgStopSimulation
    \/ MsgStopBase
    \/ MsgStopReturns

\* The message variant with all its threads and a call of stop_simulation at
\* any moment; every thread and the caller keep being scheduled.
SpecMsgHalt ==
    /\ InitSim
    /\ [][NextMsgHalt]_vars
    /\ \A b \in Buses : WF_vars(b \in seed_buses /\ (BusThreadStep(b) \/ BusLeavesLoop(b)))
    /\ \A p \in Passengers :
          WF_vars(p \in seed_passengers /\ (PassengerThreadStep(p) \/ PassLeavesLoop(p)))
    /\ \A th \in LoopThreads : WF_vars(LoopTurn(th))
    /\ \A g \in Generators : WF_vars(GeneratorTurn(g))
    /\ WF_vars(MsgStopBase \/ MsgStopReturns)

\* C39: once MessageSimulationManager.stop_simulation has returned, no
\* generator publishes a message any more, and every generator loop ends.
C39_GeneratorsEndAfterStop ==
    /\ [][msgPc = "returned" => nRequests' = nRequests]_vars
    /\ [](msgPc = "returned" => <>(\A g \in Generators : genPc[g] = "ended"))

\* The for loop of the worker over the subscribers of the message is left:
\* exhausted, or ended by the iterator's RuntimeError.
FanoutEnds == workerPc = "fanout" /\ workerPc' = "check"

\* C40: when the fan-out of a dequeued message ends, on_message has been
\* invoked with it for every subscriber that was subscribed to its kind when
\* the fan-out began and has not been unsubscribed from it since, whatever
\* subscribe and unsubscribe calls ran meanwhile.
C40_FanoutReachesKept ==
    [][FanoutEnds => \A s \in fanoutKept : DeliveredTo(s, workerMsg.n)]_vars

=========================================================================
